---------------------------- MODULE Spec2Model ----------------------------
(***************************************************************************)
(* A model of the MCP client generator (kriasoft/mcp-client-gen).          *)
(*                                                                         *)
(* The code generator is a pipeline of pure functions over introspected    *)
(* capability data: utils (pascalCase, camelCase), the schema converter    *)
(* (jsonSchemaToTypeScript), the interface generator                       *)
(* (generateToolInterface), the class generator (generateClientClass) and  *)
(* the file builder (generateClientFile).  The text the file builder emits *)
(* is itself a program (the unwrap helpers and the singleton accessors);   *)
(* its run-time behaviour is modelled by SpecToolResult,                   *)
(* SpecResourceResult and SpecModule.                                      *)
(*                                                                         *)
(* JavaScript values are modelled as follows.  An object is a record whose *)
(* domain holds exactly the properties that are present, so x.f being    *)
(* undefined is "f" \notin DOMAIN x.  Identifiers that the code transforms *)
(* character by character (server, tool, resource, prompt and property     *)
(* names) are sequences of one-character strings; all other text is a TLA+ *)
(* string, and template literals are string concatenation.                 *)
(***************************************************************************)
EXTENDS Integers, Sequences, FiniteSets, TLC

VARIABLES
    tool,       \* SpecToolInterface: the Tool handed to generateToolInterface
    iface,      \* SpecToolInterface: the InterfaceDeclaration it returned
    servers,    \* Spec: the Map<string, IntrospectionResult>, in iteration order
    options,    \* Spec: the CodegenOptions
    now,        \* Spec: the system clock (ms), read by new Date()
    out,        \* Spec: the module built by the latest run of generateClientFile
    prev,       \* Spec: the module built by the run before it
    module,     \* SpecModule: the generated module that is loaded
    slots,      \* SpecModule: the module-level let _<instanceName> slots
    built,      \* SpecModule: every instance constructed so far (new XClient(c))
    calls,      \* SpecModule: accessor calls so far: accessor, connection, returned instance
    raw,        \* SpecToolResult, SpecResourceResult: the raw result handed to the helper
    toolName,   \* SpecToolResult: the tool name handed to handleToolResult
    outcome,    \* SpecToolResult, SpecResourceResult: what the helper call did
    resourceUri,  \* SpecResourceResult: the URI handed to handleResourceResult
    namePair,   \* SpecCase: the two names handed to pascalCase and camelCase
    cased,      \* SpecCase: what pascalCase and camelCase returned for each
    schemaNode, \* SpecSchema: the schema handed to jsonSchemaToTypeScript
    synthesized,  \* SpecSchema: what the jsonSchemaToTypeScript call did
    introspected,  \* SpecClientClass: the server name and IntrospectionResult
    clientClass,  \* SpecClientClass: the ClassDeclaration generateClientClass returned
    targets,    \* SpecIntrospect: the servers handed to introspectServersParallel
    tasks,      \* SpecIntrospect: the introspectServer calls in flight, one per server
    gathered,   \* SpecIntrospect: what introspectServersParallel resolved to
    capabilityCache,  \* SpecCache: the Map from type:url to IntrospectionResult
    cacheCalls, \* SpecCache: the getCachedCapabilities calls made so far
    cacheOp,    \* SpecCache: the latest operation on the cache
    configFiles,  \* SpecConfig: the config files at the paths handed to getMcpServers
    mcpServers, \* SpecConfig: what getMcpServers returned
    oauthStorage,   \* SpecOAuth: the fields of the provider's InMemoryOAuthStorage
    pendingInvalidations,   \* SpecOAuth: invalidateCredentials("client") calls
                            \* suspended at their first await
    oauthOp,        \* SpecOAuth: the latest step, with the storage before it
    callers,        \* SpecAccessor: the concurrent callers of the accessors, each
                    \* with its position
    connections,    \* SpecManager: the Map from type:url to McpConnection, in
                    \* insertion order
    clients,        \* SpecManager: the connections createMcpConnection made, each
                    \* with the state of its client
    managerCalls,   \* SpecManager: the addServer and disconnect calls made so far
    serverMap,      \* SpecNames: a server map of two servers, and the options
    topLevel        \* SpecNames: the module generateClientFile built from them

vars == <<tool, iface, servers, options, now, out, prev, module, slots, built,
          calls, raw, toolName, outcome, resourceUri, namePair, cased, schemaNode,
          synthesized, introspected, clientClass, targets, tasks, gathered,
          capabilityCache, cacheCalls, cacheOp, configFiles, mcpServers,
          oauthStorage, pendingInvalidations, oauthOp,
          callers,
          connections, clients, managerCalls,
          serverMap, topLevel>>

-----------------------------------------------------------------------------
(* Bounds of the model *)

MaxServers == 2     \* servers in the input map
MaxClock == 1       \* the clock runs from 0 to MaxClock milliseconds
MaxCalls == 3       \* accessor calls made on a loaded module

-----------------------------------------------------------------------------
(* JavaScript helpers *)

\* the value undefined
Undefined == [undefined |-> TRUE]

\* x.f, or undefined when the property is absent
Get(x, f) == IF f \in DOMAIN x THEN x[f] ELSE Undefined

\* truthiness of a string-valued optional property: absent and "" are falsy
TruthyStr(x, f) == f \in DOMAIN x /\ x[f] # ""

RECURSIVE Str(_)
\* the string spelled by a sequence of characters
Str(s) == IF s = <<>> THEN "" ELSE Head(s) \o Str(Tail(s))

RECURSIVE Join_Reversed(_, _)
\* a slip: the elements are joined last to first
Join_Reversed(ss, sep) ==
    IF Len(ss) = 0 THEN ""
    ELSE IF Len(ss) = 1 THEN ss[1]
    ELSE Join_Reversed(Tail(ss), sep) \o sep \o ss[1]

RECURSIVE Join_NoSeparator(_, _)
\* a slip: the separator is dropped
Join_NoSeparator(ss, sep) ==
    IF Len(ss) = 0 THEN "" ELSE ss[1] \o Join_NoSeparator(Tail(ss), sep)

RECURSIVE Join(_, _)
\* Array.prototype.join
Join(ss, sep) ==
    IF Len(ss) = 0 THEN ""
    ELSE IF Len(ss) = 1 THEN ss[1]
    ELSE ss[1] \o sep \o Join(Tail(ss), sep)

RECURSIVE Flatten(_)
\* concatenation of a sequence of sequences
Flatten(ss) == IF ss = <<>> THEN <<>> ELSE Head(ss) \o Flatten(Tail(ss))

\* the elements of a sequence
Range(s) == {s[i] : i \in DOMAIN s}

-----------------------------------------------------------------------------
(* utils: pascalCase and camelCase *)

LowerLetters == <<"a","b","c","d","e","f","g","h","i","j","k","l","m",
                  "n","o","p","q","r","s","t","u","v","w","x","y","z">>
UpperLetters == <<"A","B","C","D","E","F","G","H","I","J","K","L","M",
                  "N","O","P","Q","R","S","T","U","V","W","X","Y","Z">>
Digits == <<"0","1","2","3","4","5","6","7","8","9">>

\* the characters of the class [-_\s] (of the white space: space, tab, line
\* feed, carriage return, form feed)
IsSeparator(c) == c \in {"-", "_", " ", "\t", "\n", "\r", "\f"}

\* String.prototype.toUpperCase on one character
ToUpperCase(c) ==
    IF \E i \in DOMAIN LowerLetters : LowerLetters[i] = c
    THEN UpperLetters[CHOOSE i \in DOMAIN LowerLetters : LowerLetters[i] = c]
    ELSE c

\* String.prototype.toLowerCase on one character
ToLowerCase(c) ==
    IF \E i \in DOMAIN UpperLetters : UpperLetters[i] = c
    THEN LowerLetters[CHOOSE i \in DOMAIN UpperLetters : UpperLetters[i] = c]
    ELSE c

RECURSIVE DropSeparators(_)
\* what is left after a maximal run of separators ([-_\s]+ is greedy)
DropSeparators(s) ==
    IF s # <<>> /\ IsSeparator(Head(s)) THEN DropSeparators(Tail(s)) ELSE s

RECURSIVE ReplaceSeparators_OneByOne(_)
\* a slip: the pattern without its +, so that each separator is replaced alone
\* together with the character after it
ReplaceSeparators_OneByOne(s) ==
    IF s = <<>> THEN <<>>
    ELSE IF IsSeparator(Head(s))
         THEN IF Tail(s) = <<>> THEN <<>>
              ELSE <<ToUpperCase(s[2])>> \o ReplaceSeparators_OneByOne(Tail(Tail(s)))
         ELSE <<Head(s)>> \o ReplaceSeparators_OneByOne(Tail(s))

RECURSIVE ReplaceSeparators(_)
\* str.replace(/[-_\s]+(.)?/g, (_, char) => (char ? char.toUpperCase() : ""))
ReplaceSeparators(s) ==
    IF s = <<>> THEN <<>>
    ELSE IF IsSeparator(Head(s))
         THEN LET rest == DropSeparators(s)
              IN  IF rest = <<>> THEN <<>>
                  ELSE <<ToUpperCase(Head(rest))>> \o ReplaceSeparators(Tail(rest))
         ELSE <<Head(s)>> \o ReplaceSeparators(Tail(s))

pascalCase(s) ==
    LET r == ReplaceSeparators(s)
    IN  IF r = <<>> THEN r ELSE <<ToUpperCase(Head(r))>> \o Tail(r)

camelCase(s) ==
    LET r == ReplaceSeparators(s)
    IN  IF r = <<>> THEN r ELSE <<ToLowerCase(Head(r))>> \o Tail(r)

-----------------------------------------------------------------------------
(* schema-converter: jsonSchemaToTypeScript                                *)
(*                                                                         *)
(* A schema is a record with the JSON Schema keywords that are present.    *)
(* type holds a single type name; a multi-valued type array is the     *)
(* field types (TLC cannot compare a string with a sequence).            *)
(* properties is the sequence of [key, schema] entries in the order of   *)
(* Object.entries; required is the set of required keys;                 *)
(* additionalProperties is [bool |-> TRUE/FALSE] or a schema.  enum,    *)
(* anyOf, oneOf and allOf hold arrays; notArray is the set of those of   *)
(* the four keywords whose value is truthy and not an array (a string, a   *)
(* number, an object).  jsonSchemaToTypeScript gives the value of the      *)
(* calls that return; MapOfNonArray tells the calls that throw.            *)

IsLetter(c) == c \in Range(LowerLetters) \cup Range(UpperLetters)
IsDigit(c) == c \in Range(Digits)

\* /^[a-zA-Z_][a-zA-Z0-9_]*$/.test(key)
IsBareIdentifier(key) ==
    /\ key # <<>>
    /\ IsLetter(key[1]) \/ key[1] = "_"
    /\ \A i \in 2..Len(key) : IsLetter(key[i]) \/ IsDigit(key[i]) \/ key[i] = "_"

\* a slip: the required list is not read
RequiredSet_Ignored(schema) == {}

\* new Set(schema.required || [])
RequiredSet(schema) == IF "required" \in DOMAIN schema THEN schema.required ELSE {}

\* schema.type when it is a single type name; "" when absent or an array
SchemaType(schema) == IF "type" \in DOMAIN schema THEN schema.type ELSE ""

\* a slip: an object without properties becomes the empty structural type
OpenRecordType_Empty == "{}"

\* the type of an object without properties (schema-converter.ts:40)
OpenRecordType == "Record<string, any>"

RECURSIVE jsonSchemaToTypeScript(_)
jsonSchemaToTypeScript(schema) ==
    IF schema = Undefined THEN "any"
    ELSE LET type == SchemaType(schema) IN
    IF type = "string" THEN
        IF "enum" \in DOMAIN schema
        THEN Join([i \in DOMAIN schema.enum |-> "\"" \o schema.enum[i] \o "\""], " | ")
        ELSE "string"
    ELSE IF type \in {"number", "integer"} THEN "number"
    ELSE IF type = "boolean" THEN "boolean"
    ELSE IF type = "null" THEN "null"
    ELSE IF type = "array" THEN
        jsonSchemaToTypeScript(Get(schema, "items")) \o "[]"
    ELSE IF type = "object" THEN
        IF "properties" \notin DOMAIN schema THEN OpenRecordType
        ELSE LET required == RequiredSet(schema)
                 entries == schema.properties
                 prop(e) ==
                     LET t == jsonSchemaToTypeScript(e.schema)
                         optional == IF e.key \in required THEN "" ELSE "?"
                         quotedKey == IF IsBareIdentifier(e.key) THEN Str(e.key)
                                      ELSE "\"" \o Str(e.key) \o "\""
                     IN  "  " \o quotedKey \o optional \o ": " \o t \o ";"
                 ap == Get(schema, "additionalProperties")
                 apTruthy == ap # Undefined /\ ("bool" \in DOMAIN ap => ap.bool)
                 additionalType ==
                     IF "bool" \in DOMAIN ap THEN "any" ELSE jsonSchemaToTypeScript(ap)
                 props == [i \in DOMAIN entries |-> prop(entries[i])]
                          \o (IF apTruthy
                              THEN <<"  [key: string]: " \o additionalType \o ";">>
                              ELSE <<>>)
             IN  IF Len(props) > 0 THEN "{\n" \o Join(props, "\n") \o "\n}" ELSE "{}"
    ELSE IF "types" \in DOMAIN schema THEN
        Join([i \in DOMAIN schema.types |->
                 jsonSchemaToTypeScript([type |-> schema.types[i]])], " | ")
    ELSE IF "anyOf" \in DOMAIN schema \/ "oneOf" \in DOMAIN schema THEN
        LET schemas == IF "anyOf" \in DOMAIN schema THEN schema.anyOf ELSE schema.oneOf
        IN  Join([i \in DOMAIN schemas |-> jsonSchemaToTypeScript(schemas[i])], " | ")
    ELSE IF "allOf" \in DOMAIN schema THEN
        Join([i \in DOMAIN schema.allOf |-> jsonSchemaToTypeScript(schema.allOf[i])],
             " & ")
    ELSE "any"

-----------------------------------------------------------------------------
(* interface-generator: generateToolInterface                              *)
(*                                                                         *)
(* A Tool is [name, description?, inputSchema?].  The InterfaceDeclaration *)
(* is [name, jsDocs, properties], each property being                      *)
(* [name, type, hasQuestionToken, jsDocs].                                 *)

\* a JSDoc block: addJsDoc({ description, tags })
JsDoc(description, tags) == [description |-> description, tags |-> tags]

\* if (x.description) node.addJsDoc({ description: x.description })
DescriptionDocs(x) ==
    IF TruthyStr(x, "description") THEN <<JsDoc(x.description, <<>>)>> ELSE <<>>

\* tool.inputSchema?.type === "object" && tool.inputSchema.properties
HasObjectProperties(t) ==
    /\ "inputSchema" \in DOMAIN t
    /\ SchemaType(t.inputSchema) = "object"
    /\ "properties" \in DOMAIN t.inputSchema

\* the interface property added for one entry of inputSchema.properties
InterfaceProperty(e, required) ==
    [name |-> Str(e.key),
     type |-> jsonSchemaToTypeScript(e.schema),
     hasQuestionToken |-> e.key \notin required,
     jsDocs |-> DescriptionDocs(e.schema)]

\* the wrapper property of a schema that is no object with properties
ValueProperty(typeString) ==
    [name |-> "value", type |-> typeString, hasQuestionToken |-> FALSE, jsDocs |-> <<>>]

\* a slip: the wrapper property is never added
generateToolInterface_NoWrapper(t) ==
    LET schema == Get(t, "inputSchema")
    IN  [name |-> Str(pascalCase(t.name)) \o "Input",
         jsDocs |-> DescriptionDocs(t),
         properties |->
            IF HasObjectProperties(t)
            THEN [i \in DOMAIN schema.properties |->
                     InterfaceProperty(schema.properties[i], RequiredSet(schema))]
            ELSE <<>>]

generateToolInterface(t) ==
    LET schema == Get(t, "inputSchema")
        interfaceName == Str(pascalCase(t.name)) \o "Input"
        typeString == jsonSchemaToTypeScript(schema)
    IN  [name |-> interfaceName,
         jsDocs |-> DescriptionDocs(t),
         properties |->
            IF HasObjectProperties(t)
            THEN [i \in DOMAIN schema.properties |->
                     InterfaceProperty(schema.properties[i], RequiredSet(schema))]
            ELSE IF typeString # "{}" THEN <<ValueProperty(typeString)>>
            ELSE <<>>]

-----------------------------------------------------------------------------
(* class-generator: generateClientClass                                    *)
(*                                                                         *)
(* A Resource is [uri, name?, description?]; a Prompt is                   *)
(* [name, description?, arguments?], an argument being [name, required?].  *)
(* A MethodDeclaration is [kind, name, parameters, returnType, jsDocs,     *)
(* statements]; kind records which generator added the method.           *)

\* the three digits of n (0 <= n < 1000)
Pad3(n) == Digits[(n \div 100) + 1] \o Digits[((n \div 10) % 10) + 1] \o Digits[(n % 10) + 1]

\* new Date().toISOString() for a clock of t milliseconds, t < 1000
toISOString(t) == "1970-01-01T00:00:00." \o Pad3(t) \o "Z"

generateToolMethod(t) ==
    LET methodName == Str(camelCase(t.name))
        inputType == IF "inputSchema" \in DOMAIN t
                     THEN Str(pascalCase(t.name)) \o "Input" ELSE "void"
        callArgs == IF inputType # "void" THEN "input" ELSE "{}"
    IN  [kind |-> "tool",
         name |-> methodName,
         parameters |-> IF inputType # "void"
                        THEN <<[name |-> "input", type |-> inputType]>> ELSE <<>>,
         returnType |-> "Promise<any>",
         jsDocs |-> DescriptionDocs(t),
         statements |->
            <<"const result = await this.connection.client.callTool({",
              "  name: \"" \o Str(t.name) \o "\",",
              "  arguments: " \o callArgs \o ",",
              "});",
              "return handleToolResult(result, \"" \o Str(t.name) \o "\");">>]

\* if (resource.name)
HasName(r) == "name" \in DOMAIN r /\ r.name # <<>>

\* the convenience method of one named resource
ResourceMethod(r) ==
    [kind |-> "resource",
     name |-> "get" \o Str(pascalCase(r.name)),
     parameters |-> <<>>,
     returnType |-> "Promise<any>",
     jsDocs |-> DescriptionDocs(r),
     statements |-> <<"return this.getResource(\"" \o r.uri \o "\");">>]

generateResourceMethods(resources) ==
    <<[kind |-> "getResource",
       name |-> "getResource",
       parameters |-> <<[name |-> "uri", type |-> "string"]>>,
       returnType |-> "Promise<any>",
       jsDocs |-> <<JsDoc("Fetch a resource by URI",
                          <<[tagName |-> "param", text |-> "uri - Resource URI"]>>)>>,
       statements |->
          <<"const result = await this.connection.client.readResource({ uri });",
            "return handleResourceResult(result, uri);">>]>>
    \o LET named == SelectSeq(resources, HasName)
       IN  [i \in DOMAIN named |-> ResourceMethod(named[i])]

\* the method of one prompt
PromptMethod(p) ==
    LET arguments == IF "arguments" \in DOMAIN p THEN p.arguments ELSE <<>>
        param(arg) ==
            arg.name \o (IF "required" \in DOMAIN arg /\ arg.required THEN "" ELSE "?")
                     \o ": string"
        params == [i \in DOMAIN arguments |-> param(arguments[i])]
        argsParam == IF Len(params) > 0 THEN "args" ELSE "{}"
    IN  [kind |-> "prompt",
         name |-> Str(camelCase(p.name)) \o "Prompt",
         parameters |-> IF Len(params) > 0
                        THEN <<[name |-> "args",
                                type |-> "{ " \o Join(params, "; ") \o " }"]>>
                        ELSE <<>>,
         returnType |-> "Promise<any>",
         jsDocs |-> DescriptionDocs(p),
         statements |->
            <<"const result = await this.connection.client.getPrompt({",
              "  name: \"" \o Str(p.name) \o "\",",
              "  arguments: " \o argsParam \o ",",
              "});",
              "return result.messages;">>]

generatePromptMethods(prompts) == [i \in DOMAIN prompts |-> PromptMethod(prompts[i])]

\* the methods of the class, in the order they are added
ClassMethods(result) ==
    [i \in DOMAIN result.tools |-> generateToolMethod(result.tools[i])]
    \o (IF Len(result.resources) > 0
        THEN generateResourceMethods(result.resources) ELSE <<>>)
    \o (IF Len(result.prompts) > 0
        THEN generatePromptMethods(result.prompts) ELSE <<>>)

\* the class without its methods
ClassShell(serverName, t) ==
    [name |-> Str(pascalCase(serverName)) \o "Client",
     isExported |-> TRUE,
     jsDocs |-> <<JsDoc("MCP client for " \o Str(serverName) \o " server",
                        <<[tagName |-> "generated", text |-> toISOString(t)]>>)>>,
     properties |-> <<[name |-> "connection", type |-> "McpConnection",
                       scope |-> "private"]>>,
     ctor |-> [parameters |-> <<[name |-> "connection", type |-> "McpConnection"]>>,
               statements |-> <<"this.connection = connection;">>],
     methods |-> <<>>]

\* a slip: every method is stamped with the generation time as well
generateClientClass_StampedMethods(serverName, result, t) ==
    [ClassShell(serverName, t) EXCEPT
        !.methods =
            LET ms == ClassMethods(result)
            IN  [i \in DOMAIN ms |->
                    [ms[i] EXCEPT !.jsDocs =
                        @ \o <<JsDoc("", <<[tagName |-> "generated",
                                            text |-> toISOString(t)]>>)>>]]]

generateClientClass(serverName, result, t) ==
    [ClassShell(serverName, t) EXCEPT !.methods = ClassMethods(result)]

-----------------------------------------------------------------------------
(* file-builder: generateClientFile                                        *)
(*                                                                         *)
(* The source file is the sequence of its top-level statements, each       *)
(* [kind, server, node]: server is the position in the map of the server *)
(* whose loop iteration added the statement (0 before the loop), node    *)
(* is the structure handed to ts-morph.  An IntrospectionResult is         *)
(* [tools, resources, prompts, error?]; the map is a sequence of           *)
(* [name, result] entries in iteration order; CodegenOptions is a record   *)
(* with the options that are given.                                        *)

\* file-builder.ts:140-174, the text of the tool unwrap helper (the back quotes
\* of its template literals are written as double quotes)
HandleToolResultText ==
    <<"/**",
      " * Helper function to handle MCP tool call results with proper error checking",
      " * @param result - The result from client.callTool()",
      " * @param toolName - Name of the tool for error messages",
      " * @returns The first content item from the result",
      " * @throws Error if the tool returned an error or invalid content",
      " */",
      "function handleToolResult<T = any>(result: any, toolName: string): T {",
      "  // Check if the tool returned an error",
      "  if (result.isError) {",
      "    const errorContent = result.content?.[0];",
      "    const errorMessage =",
      "      errorContent && typeof errorContent === \"object\" && \"text\" in errorContent",
      "        ? String(errorContent.text)",
      "        : \"Tool execution failed\";",
      "    throw new Error(\"Tool '${toolName}' error: ${errorMessage}\");",
      "  }",
      "",
      "  // Validate content exists and is non-empty",
      "  if (",
      "    !result.content ||",
      "    !Array.isArray(result.content) ||",
      "    result.content.length === 0",
      "  ) {",
      "    throw new Error(\"Tool '${toolName}' returned empty content\");",
      "  }",
      "",
      "  // Extract the first content item",
      "  const content = result.content[0];",
      "  if (!content || typeof content !== \"object\") {",
      "    throw new Error(\"Tool '${toolName}' returned invalid content structure\");",
      "  }",
      "",
      "  return content as T;",
      "}">>

\* file-builder.ts:176-197, the text of the resource unwrap helper (back quotes
\* written as double quotes)
HandleResourceResultText ==
    <<"/**",
      " * Helper function to handle MCP resource read results",
      " * @param result - The result from client.readResource()",
      " * @param resourceUri - URI of the resource for error messages",
      " * @returns The first content item from the result",
      " * @throws Error if the resource returned empty contents",
      " */",
      "function handleResourceResult<T = any>(",
      "  result: any,",
      "  resourceUri: string,",
      "): T {",
      "  // Validate contents exist",
      "  if (",
      "    !result.contents ||",
      "    !Array.isArray(result.contents) ||",
      "    result.contents.length === 0",
      "  ) {",
      "    throw new Error(\"Resource '${resourceUri}' returned empty contents\");",
      "  }",
      "",
      "  return result.contents[0] as T;",
      "}">>

Statement(kind, server, node) == [kind |-> kind, server |-> server, node |-> node]

\* file-builder.ts:49-53, the file header, stamped with the time of the run
HeaderText(stamp) ==
    <<"/* Generated MCP Client SDK */", "/* Generated at: " \o stamp \o " */">>

\* the statements added before the loop over the servers
Preamble(t) ==
    <<Statement("header", 0, [text |-> HeaderText(toISOString(t))]),
      Statement("import", 0,
                [moduleSpecifier |-> "@modelcontextprotocol/sdk/client/index.js",
                 namedImports |-> <<"Client">>, isTypeOnly |-> FALSE]),
      Statement("import", 0,
                [moduleSpecifier |-> "./types.js",
                 namedImports |-> <<"McpConnection">>, isTypeOnly |-> TRUE]),
      Statement("helper", 0, [name |-> "handleToolResult",
                              text |-> HandleToolResultText]),
      Statement("helper", 0, [name |-> "handleResourceResult",
                              text |-> HandleResourceResultText])>>

\* if (result.error)
HasError(result) == TruthyStr(result, "error")

\* a slip: if (options.treeShakable), so that an absent option disables it
TreeShakable_Truthy(opts) == "treeShakable" \in DOMAIN opts /\ opts.treeShakable

\* options.treeShakable !== false
TreeShakable(opts) == ~("treeShakable" \in DOMAIN opts /\ opts.treeShakable = FALSE)

\* a slip: only tools with an object schema get an interface
ToolsWithSchema_ObjectOnly(result) ==
    SelectSeq(result.tools,
              LAMBDA t : "inputSchema" \in DOMAIN t /\ SchemaType(t.inputSchema) = "object")

\* the tools that get an interface: if (tool.inputSchema)
ToolsWithSchema(result) == SelectSeq(result.tools, LAMBDA t : "inputSchema" \in DOMAIN t)

\* a slip: the accessor awaits between the test of its slot and the
\* assignment to it
SingletonStatements_Awaiting(i, serverName, className) ==
    LET instanceName == Str(camelCase(serverName))
    IN  <<Statement("slot", i,
                    [comment |-> "// Singleton instance for " \o Str(serverName),
                     name |-> "_" \o instanceName,
                     type |-> className \o " | undefined"]),
          Statement("accessor", i,
                    [name |-> "get" \o Str(pascalCase(serverName)) \o "Client",
                     isExported |-> TRUE,
                     parameters |-> <<[name |-> "connection", type |-> "McpConnection"]>>,
                     returnType |-> className,
                     className |-> className,
                     slot |-> "_" \o instanceName,
                     statements |->
                        <<"if (!_" \o instanceName \o ") {",
                          "  await connection.client.ping();",
                          "  _" \o instanceName \o " = new " \o className
                              \o "(connection);",
                          "}",
                          "return _" \o instanceName \o ";">>])>>

\* the singleton slot and accessor of one server (file-builder.ts:95-123)
SingletonStatements(i, serverName, className) ==
    LET instanceName == Str(camelCase(serverName))
    IN  <<Statement("slot", i,
                    [comment |-> "// Singleton instance for " \o Str(serverName),
                     name |-> "_" \o instanceName,
                     type |-> className \o " | undefined"]),
          Statement("accessor", i,
                    [name |-> "get" \o Str(pascalCase(serverName)) \o "Client",
                     isExported |-> TRUE,
                     parameters |-> <<[name |-> "connection", type |-> "McpConnection"]>>,
                     returnType |-> className,
                     className |-> className,
                     slot |-> "_" \o instanceName,
                     statements |->
                        <<"if (!_" \o instanceName \o ") {",
                          "  _" \o instanceName \o " = new " \o className
                              \o "(connection);",
                          "}",
                          "return _" \o instanceName \o ";">>])>>

\* a slip: the class is added before the interfaces of its tools
ServerStatements_ClassFirst(i, serverName, result, opts, t) ==
    IF HasError(result)
    THEN <<Statement("comment", i,
                     [text |-> <<"// Error introspecting " \o Str(serverName)
                                   \o ": " \o result.error>>])>>
    ELSE LET withSchema == ToolsWithSchema(result)
             classDecl == generateClientClass(serverName, result, t)
         IN  <<Statement("class", i, classDecl)>>
             \o [k \in DOMAIN withSchema |->
                    Statement("interface", i, generateToolInterface(withSchema[k]))]
             \o (IF TreeShakable(opts)
                 THEN SingletonStatements(i, serverName, classDecl.name)
                 ELSE <<>>)

\* one iteration of the loop over the servers (file-builder.ts:75-124)
ServerStatements(i, serverName, result, opts, t) ==
    IF HasError(result)
    THEN <<Statement("comment", i,
                     [text |-> <<"// Error introspecting " \o Str(serverName)
                                   \o ": " \o result.error>>])>>
    ELSE LET withSchema == ToolsWithSchema(result)
             classDecl == generateClientClass(serverName, result, t)
         IN  [k \in DOMAIN withSchema |->
                 Statement("interface", i, generateToolInterface(withSchema[k]))]
             \o <<Statement("class", i, classDecl)>>
             \o (IF TreeShakable(opts)
                 THEN SingletonStatements(i, serverName, classDecl.name)
                 ELSE <<>>)

\* generateClientFile(servers, options); clock[1] is the time read for the
\* header and clock[i + 1] the time read while the class of server i is built
generateClientFile(srvs, opts, clock) ==
    Preamble(clock[1])
    \o Flatten([i \in DOMAIN srvs |->
                   ServerStatements(i, srvs[i].name, srvs[i].result, opts, clock[i + 1])])

-----------------------------------------------------------------------------
(* Inputs of the interface generator *)

MaxProps == 2       \* properties of an object schema
MaxBranches == 2    \* branches of an anyOf / oneOf / allOf schema

PropertyKeys == {<<"i","d">>, <<"x","-","y">>, <<"_","2">>}

PropertySchemas ==
    {[type |-> "string"],
     [type |-> "string", description |-> "Page title"],
     [type |-> "object", properties |-> <<>>],
     [type |-> "array", items |-> [type |-> "number"]]}

PropertyEntries == [key : PropertyKeys, schema : PropertySchemas]

\* Object.entries of a properties object: the keys are pairwise distinct
PropertyLists ==
    UNION {{pl \in [1..n -> PropertyEntries] :
               \A i, j \in 1..n : i # j => pl[i].key # pl[j].key} : n \in 0..MaxProps}

KeysOf(pl) == {pl[i].key : i \in DOMAIN pl}

ObjectSchemas ==
    UNION {{[type |-> "object", properties |-> pl]}
           \cup {[type |-> "object", properties |-> pl, required |-> r] :
                    r \in SUBSET KeysOf(pl)} : pl \in PropertyLists}
    \cup {[type |-> "object", properties |-> <<>>, additionalProperties |-> ap] :
             ap \in {[bool |-> TRUE], [bool |-> FALSE], [type |-> "number"]}}

LeafSchemas ==
    {[type |-> "string"], [type |-> "number"], [type |-> "integer"],
     [type |-> "boolean"], [type |-> "null"],
     [type |-> "string", enum |-> <<"draft", "published">>],
     [type |-> "object"],
     [type |-> "array"],
     [type |-> "array", items |-> [type |-> "string"]],
     [types |-> <<"string", "null">>],
     [description |-> "anything"]}

BranchSchemas ==
    {[type |-> "string"], [type |-> "number"],
     [type |-> "object", properties |-> <<>>],
     [type |-> "object",
      properties |-> <<[key |-> <<"i","d">>, schema |-> [type |-> "string"]]>>]}

BranchLists == UNION {[1..n -> BranchSchemas] : n \in 0..MaxBranches}

CombinedSchemas ==
    {[anyOf |-> bl] : bl \in BranchLists}
    \cup {[oneOf |-> bl] : bl \in BranchLists}
    \cup {[allOf |-> bl] : bl \in BranchLists}

InputSchemas == ObjectSchemas \cup LeafSchemas \cup CombinedSchemas

ToolNames == {<<"c","r","e","a","t","e","-","p","a","g","e">>, <<"x">>}

ToolInputs ==
    UNION {{[name |-> n], [name |-> n, description |-> d]}
           \cup {[name |-> n, inputSchema |-> sch] : sch \in InputSchemas}
           \cup {[name |-> n, description |-> d, inputSchema |-> sch] :
                    sch \in InputSchemas}
           : n \in ToolNames, d \in {"", "Create a page"}}

-----------------------------------------------------------------------------
(* SpecToolInterface: generateToolInterface applied to every input tool    *)

\* the variables of the other specifications, at rest
CodegenIdle ==
    /\ servers = <<>> /\ options = Undefined /\ now = 0
    /\ out = Undefined /\ prev = Undefined
ModuleIdle ==
    /\ module = Undefined /\ slots = <<>> /\ built = <<>> /\ calls = <<>>
ToolResultIdle ==
    raw = Undefined /\ toolName = "" /\ outcome = Undefined /\ resourceUri = ""
CaseIdle == namePair = <<>> /\ cased = Undefined
SchemaIdle == schemaNode = Undefined /\ synthesized = Undefined
ClientClassIdle == introspected = Undefined /\ clientClass = Undefined
PureIdle == CaseIdle /\ SchemaIdle /\ ClientClassIdle
codegenVars == <<servers, options, now, out, prev>>
moduleVars == <<module, slots, built, calls>>
toolResultVars == <<raw, toolName, outcome, resourceUri>>
caseVars == <<namePair, cased>>
schemaVars == <<schemaNode, synthesized>>
clientClassVars == <<introspected, clientClass>>
pureVars == <<caseVars, schemaVars, clientClassVars>>
IntrospectIdle == targets = <<>> /\ tasks = <<>> /\ gathered = Undefined
CacheIdle == capabilityCache = {} /\ cacheCalls = <<>> /\ cacheOp = ""
ConfigIdle == configFiles = <<>> /\ mcpServers = Undefined
OAuthIdle ==
    oauthStorage = Undefined /\ pendingInvalidations = <<>> /\ oauthOp = Undefined
AccessorIdle == callers = <<>>
ManagerIdle == connections = <<>> /\ clients = <<>> /\ managerCalls = <<>>
NamesIdle == serverMap = Undefined /\ topLevel = Undefined
LibIdle == IntrospectIdle /\ CacheIdle /\ ConfigIdle /\ OAuthIdle /\ AccessorIdle /\ ManagerIdle /\ NamesIdle
introspectVars == <<targets, tasks, gathered>>
cacheVars == <<capabilityCache, cacheCalls, cacheOp>>
configVars == <<configFiles, mcpServers>>
oauthVars == <<oauthStorage, pendingInvalidations, oauthOp>>
accessorVars == <<callers>>
managerVars == <<connections, clients, managerCalls>>
namesVars == <<serverMap, topLevel>>
libVars == <<introspectVars, cacheVars, configVars, oauthVars, accessorVars, managerVars, namesVars>>
\* the variables of the other library specifications, and their idle states
IntrospectOthersIdle == CacheIdle /\ ConfigIdle /\ OAuthIdle /\ AccessorIdle /\ ManagerIdle /\ NamesIdle
introspectOthers == <<cacheVars, configVars, oauthVars, accessorVars, managerVars, namesVars>>
CacheOthersIdle == IntrospectIdle /\ ConfigIdle /\ OAuthIdle /\ AccessorIdle /\ ManagerIdle /\ NamesIdle
cacheOthers == <<introspectVars, configVars, oauthVars, accessorVars, managerVars, namesVars>>
ConfigOthersIdle == IntrospectIdle /\ CacheIdle /\ OAuthIdle /\ AccessorIdle /\ ManagerIdle /\ NamesIdle
configOthers == <<introspectVars, cacheVars, oauthVars, accessorVars, managerVars, namesVars>>
OAuthOthersIdle == IntrospectIdle /\ CacheIdle /\ ConfigIdle /\ AccessorIdle /\ ManagerIdle /\ NamesIdle
oauthOthers == <<introspectVars, cacheVars, configVars, accessorVars, managerVars, namesVars>>
AccessorOthersIdle == IntrospectIdle /\ CacheIdle /\ ConfigIdle /\ OAuthIdle /\ ManagerIdle /\ NamesIdle
accessorOthers == <<introspectVars, cacheVars, configVars, oauthVars, managerVars, namesVars>>
ManagerOthersIdle == IntrospectIdle /\ CacheIdle /\ ConfigIdle /\ OAuthIdle /\ AccessorIdle /\ NamesIdle
managerOthers == <<introspectVars, cacheVars, configVars, oauthVars, accessorVars, namesVars>>
NamesOthersIdle == IntrospectIdle /\ CacheIdle /\ ConfigIdle /\ OAuthIdle /\ AccessorIdle /\ ManagerIdle
namesOthers == <<introspectVars, cacheVars, configVars, oauthVars, accessorVars, managerVars>>

InitToolInterface ==
    /\ tool \in ToolInputs
    /\ iface = Undefined
    /\ CodegenIdle /\ ModuleIdle /\ ToolResultIdle /\ PureIdle /\ LibIdle

GenerateToolInterface ==
    /\ iface = Undefined
    /\ iface' = generateToolInterface(tool)
    /\ UNCHANGED <<libVars, tool, codegenVars, moduleVars, toolResultVars, pureVars>>

NextToolInterface == GenerateToolInterface

SpecToolInterface == InitToolInterface /\ [][NextToolInterface]_vars

\* the declaration of a tool with an input schema has been built
DeclarationBuilt == iface # Undefined /\ "inputSchema" \in DOMAIN tool

\* C1 (as claimed): whenever a tool has an input schema, its declaration is
\* never structurally empty: one property per schema property when the schema
\* is an object with properties, otherwise the single property value typed
\* by the full synthesized expression.
C1_NeverEmpty ==
    DeclarationBuilt =>
        /\ Len(iface.properties) > 0
        /\ IF HasObjectProperties(tool)
           THEN Len(iface.properties) = Len(tool.inputSchema.properties)
           ELSE /\ Len(iface.properties) = 1
                /\ iface.properties[1].name = "value"
                /\ iface.properties[1].type = jsonSchemaToTypeScript(tool.inputSchema)

\* C1 (amended): the declaration has exactly one property per schema property,
\* in the order of the schema, optional iff not required, when the schema is
\* an object with properties (so it is empty exactly when properties is
\* empty); otherwise it has the single property value typed by the full
\* synthesized expression, except that it is empty when that expression is
\* the empty structural type "{}".
C1_Declaration ==
    DeclarationBuilt =>
        LET schema == tool.inputSchema
            typeString == jsonSchemaToTypeScript(schema)
        IN  IF HasObjectProperties(tool)
            THEN /\ Len(iface.properties) = Len(schema.properties)
                 /\ \A i \in DOMAIN schema.properties :
                       /\ iface.properties[i].name = Str(schema.properties[i].key)
                       /\ iface.properties[i].hasQuestionToken
                            <=> schema.properties[i].key \notin RequiredSet(schema)
            ELSE IF typeString = "{}"
                 THEN Len(iface.properties) = 0
                 ELSE /\ Len(iface.properties) = 1
                      /\ iface.properties[1].name = "value"
                      /\ iface.properties[1].type = typeString
                      /\ ~iface.properties[1].hasQuestionToken

\* a bare string schema got its value wrapper, and an object schema with one
\* required and one optional property got both properties
C1_Witness ==
    /\ DeclarationBuilt
    /\ \/ /\ ~HasObjectProperties(tool)
          /\ Len(iface.properties) = 1
          /\ iface.properties[1].type = "string"
       \/ /\ HasObjectProperties(tool)
          /\ Len(iface.properties) = 2
          /\ ~iface.properties[1].hasQuestionToken
          /\ iface.properties[2].hasQuestionToken

-----------------------------------------------------------------------------
(* The text of a source file: sourceFile.getFullText() after formatText.   *)
(* An element of the text is one line, except that a synthesized type that *)
(* spans several lines stays in the line of its property.                  *)

\* the lines of the JSDoc blocks of a node, indented by pad
DocLines(jsDocs, pad) ==
    Flatten([i \in DOMAIN jsDocs |->
        <<pad \o "/**">>
        \o (IF jsDocs[i].description # ""
            THEN <<pad \o " * " \o jsDocs[i].description>> ELSE <<>>)
        \o [k \in DOMAIN jsDocs[i].tags |->
               pad \o " * @" \o jsDocs[i].tags[k].tagName \o " " \o jsDocs[i].tags[k].text]
        \o <<pad \o " */">>])

ParameterList(parameters) ==
    Join([i \in DOMAIN parameters |-> parameters[i].name \o ": " \o parameters[i].type],
         ", ")

MethodLines(m) ==
    DocLines(m.jsDocs, "  ")
    \o <<"  async " \o m.name \o "(" \o ParameterList(m.parameters) \o "): "
            \o m.returnType \o " {">>
    \o [i \in DOMAIN m.statements |-> "    " \o m.statements[i]]
    \o <<"  }">>

StatementLines(st) ==
    LET n == st.node IN
    CASE st.kind \in {"header", "helper", "comment"} -> n.text
      [] st.kind = "import" ->
            <<"import " \o (IF n.isTypeOnly THEN "type " ELSE "") \o "{ "
                \o Join(n.namedImports, ", ") \o " } from \"" \o n.moduleSpecifier \o "\";">>
      [] st.kind = "interface" ->
            DocLines(n.jsDocs, "")
            \o <<"export interface " \o n.name \o " {">>
            \o Flatten([i \in DOMAIN n.properties |->
                   DocLines(n.properties[i].jsDocs, "  ")
                   \o <<"  " \o n.properties[i].name
                          \o (IF n.properties[i].hasQuestionToken THEN "?" ELSE "")
                          \o ": " \o n.properties[i].type \o ";">>])
            \o <<"}">>
      [] st.kind = "class" ->
            DocLines(n.jsDocs, "")
            \o <<"export class " \o n.name \o " {",
                 "  private connection: McpConnection;",
                 "  constructor(" \o ParameterList(n.ctor.parameters) \o ") {">>
            \o [i \in DOMAIN n.ctor.statements |-> "    " \o n.ctor.statements[i]]
            \o <<"  }">>
            \o Flatten([i \in DOMAIN n.methods |-> MethodLines(n.methods[i])])
            \o <<"}">>
      [] st.kind = "slot" ->
            <<n.comment, "let " \o n.name \o ": " \o n.type \o ";">>
      [] st.kind = "accessor" ->
            <<"export function " \o n.name \o "(" \o ParameterList(n.parameters) \o "): "
                \o n.returnType \o " {">>
            \o [i \in DOMAIN n.statements |-> "  " \o n.statements[i]]
            \o <<"}">>

\* sourceFile.getFullText(), line by line
getFullText(file) == Flatten([i \in DOMAIN file |-> StatementLines(file[i])])

-----------------------------------------------------------------------------
(* Inputs of the file builder *)

\* the keys of the map, in insertion order
ServerNames ==
    <<<<"n","o","t","i","o","n">>, <<"m","y","-","a","p","i">>, <<"m","y","_","a","p","i">>>>

CreatePageTool ==
    [name |-> <<"c","r","e","a","t","e","-","p","a","g","e">>,
     description |-> "Create a page",
     inputSchema |->
        [type |-> "object",
         properties |->
            <<[key |-> <<"t","i","t","l","e">>,
               schema |-> [type |-> "string", description |-> "Page title"]],
              [key |-> <<"c","o","n","t","e","n","t">>, schema |-> [type |-> "string"]]>>,
         required |-> {<<"t","i","t","l","e">>}]]
GetStatusTool ==
    [name |-> <<"g","e","t","-","s","t","a","t","u","s">>,
     description |-> "Get system status"]
PingTool == [name |-> <<"p","i","n","g">>, inputSchema |-> [type |-> "string"]]
GetResourceTool == [name |-> <<"g","e","t","-","r","e","s","o","u","r","c","e">>]
GetItemsTool ==
    [name |-> <<"g","e","t","_","i","t","e","m","s">>,
     inputSchema |-> [type |-> "object", properties |-> <<>>]]
SummaryPromptTool ==
    [name |-> <<"s","u","m","m","a","r","y","-","p","r","o","m","p","t">>]

ItemsResource ==
    [uri |-> "resource://items", name |-> <<"i","t","e","m","s">>,
     description |-> "List of items"]
RawResource == [uri |-> "resource://raw"]
ResourceResource ==
    [uri |-> "resource://resource", name |-> <<"r","e","s","o","u","r","c","e">>]

SummaryPrompt ==
    [name |-> <<"s","u","m","m","a","r","y">>,
     description |-> "Generate a summary",
     arguments |-> <<[name |-> "text", required |-> TRUE], [name |-> "tone"]>>]
PlainPrompt == [name |-> <<"p","l","a","i","n">>]

\* the IntrospectionResults a server of the map may carry
ServerResults ==
    {[tools |-> <<>>, resources |-> <<>>, prompts |-> <<>>],
     [tools |-> <<>>, resources |-> <<>>, prompts |-> <<>>,
      error |-> "Connection refused"],
     [tools |-> <<>>, resources |-> <<>>, prompts |-> <<>>, error |-> ""],
     [tools |-> <<CreatePageTool, GetStatusTool, PingTool>>,
      resources |-> <<ItemsResource, RawResource>>,
      prompts |-> <<SummaryPrompt, PlainPrompt>>],
     [tools |-> <<GetResourceTool, GetItemsTool, SummaryPromptTool>>,
      resources |-> <<ItemsResource, ResourceResource>>,
      prompts |-> <<SummaryPrompt>>]}

\* the maps of up to MaxServers servers: the first keys of ServerNames, each
\* with any of the results
ServerMaps ==
    UNION {{[i \in 1..n |-> [name |-> ServerNames[i], result |-> rs[i]]] :
               rs \in [1..n -> ServerResults]} :
           n \in {k \in 0..MaxServers : k <= Len(ServerNames)}}

OptionsInputs ==
    {<<>>, [treeShakable |-> FALSE], [includeComments |-> FALSE],
     [includeComments |-> TRUE, treeShakable |-> TRUE]}

\* the times n successive calls of new Date() may return, from time t on
ClockReadings(t, n) ==
    {c \in [1..n -> t..MaxClock] : \A i \in 1..(n - 1) : c[i] <= c[i + 1]}

-----------------------------------------------------------------------------
(* Spec: runs of generateClientFile on one server map with one options    *)
(* record                                                                  *)

ToolInterfaceIdle == tool = Undefined /\ iface = Undefined
toolInterfaceVars == <<tool, iface>>

Init ==
    /\ servers \in ServerMaps
    /\ options \in OptionsInputs
    /\ now = 0
    /\ out = Undefined
    /\ prev = Undefined
    /\ ToolInterfaceIdle /\ ModuleIdle /\ ToolResultIdle /\ PureIdle /\ LibIdle

GenerateClientFile ==
    \E clock \in ClockReadings(now, Len(servers) + 1) :
        /\ out' = generateClientFile(servers, options, clock)
        /\ prev' = out
        /\ now' = clock[Len(servers) + 1]
        /\ UNCHANGED <<libVars, servers, options, toolInterfaceVars, moduleVars, toolResultVars,
                       pureVars>>

Next == GenerateClientFile

Spec == Init /\ [][Next]_vars

-----------------------------------------------------------------------------
(* Properties of generateClientFile                                        *)

\* a run of generateClientFile has returned
Generated == out # Undefined

\* the statements a run added for the server at position i of the map
StatementsOf(file, i) == SelectSeq(file, LAMBDA st : st.server = i)

\* the statements of one kind added for the server at position i
KindOf(file, i, kind) == SelectSeq(file, LAMBDA st : st.server = i /\ st.kind = kind)

\* the positions of the lines in which two texts of the same length differ
DifferingLines(a, b) == {i \in DOMAIN a : a[i] # b[i]}

\* the file with every generation time blanked: the header's and the one in
\* the doc comment of each class
Untimed(file) ==
    [i \in DOMAIN file |->
        IF file[i].kind = "header"
        THEN [file[i] EXCEPT !.node.text = HeaderText("")]
        ELSE IF file[i].kind = "class"
        THEN [file[i] EXCEPT !.node.jsDocs[1].tags[1].text = ""]
        ELSE file[i]]

\* the positions of the lines of the text that carry a generation time
TimestampLines(file) == DifferingLines(getFullText(file), getFullText(Untimed(file)))

NumberOfClasses(file) == Cardinality({i \in DOMAIN file : file[i].kind = "class"})

\* two runs on the same map and options have returned
TwoRuns == Generated /\ prev # Undefined

\* C2 (as claimed): for the same server map and the same options, two runs of
\* generateClientFile produce texts that differ in at most one line, the
\* generation timestamp line.
C2_AtMostOneLineDiffers ==
    TwoRuns =>
        LET a == getFullText(prev)
            b == getFullText(out)
        IN  /\ Len(a) = Len(b)
            /\ Cardinality(DifferingLines(a, b)) <= 1

\* C2 (amended): two runs on the same map and options produce texts of the
\* same number of lines that differ only in lines carrying a generation time:
\* the "Generated at" line of the header and the @generated line in the doc
\* comment of each class, so in at most 1 + (number of classes) lines.
C2_OnlyTimestampLinesDiffer ==
    TwoRuns =>
        LET a == getFullText(prev)
            b == getFullText(out)
        IN  /\ Len(a) = Len(b)
            /\ DifferingLines(a, b) \subseteq TimestampLines(out)
            /\ Cardinality(DifferingLines(a, b)) <= 1 + NumberOfClasses(out)

\* two runs at different times on a map that yields a class with methods
C2_Witness ==
    /\ TwoRuns
    /\ prev[1].node.text # out[1].node.text
    /\ \E i \in DOMAIN out : out[i].kind = "class" /\ Len(out[i].node.methods) > 0
    /\ Cardinality(DifferingLines(getFullText(prev), getFullText(out))) >= 2

\* the result at position i of the map carries an introspection error
CarriesError(i) == "error" \in DOMAIN servers[i].result

\* C4 (as claimed): for every server whose descriptor carries an introspection
\* error the run emits only a comment recording the server name and the error
\* text, and no declaration, class, slot or accessor; every other server still
\* gets its declarations and its class.
C4_FailedServerOnlyComment ==
    Generated =>
        \A i \in DOMAIN servers :
            IF CarriesError(i)
            THEN StatementsOf(out, i) =
                    <<Statement("comment", i,
                        [text |-> <<"// Error introspecting " \o Str(servers[i].name)
                                      \o ": " \o servers[i].result.error>>])>>
            ELSE /\ Len(KindOf(out, i, "class")) = 1
                 /\ Len(KindOf(out, i, "comment")) = 0
                 /\ Len(KindOf(out, i, "interface"))
                      = Len(ToolsWithSchema(servers[i].result))

\* the documentation blocks of the file that come from a description: those of
\* the interfaces, of their properties and of the tool, resource and prompt
\* methods
DescriptionDocsOf(file) ==
    Flatten([i \in DOMAIN file |->
        IF file[i].kind = "interface"
        THEN file[i].node.jsDocs
             \o Flatten([k \in DOMAIN file[i].node.properties |->
                            file[i].node.properties[k].jsDocs])
        ELSE IF file[i].kind = "class"
        THEN Flatten([k \in DOMAIN file[i].node.methods |->
                         IF file[i].node.methods[k].kind \in {"tool", "resource", "prompt"}
                         THEN file[i].node.methods[k].jsDocs ELSE <<>>])
        ELSE <<>>])

\* the descriptions the servers without error give to tools with a schema
\* (once for the interface, once for the method), to other tools, to the
\* properties of object schemas, to named resources and to prompts
DescribedIn(result) ==
    Len(SelectSeq(result.tools, LAMBDA t : TruthyStr(t, "description")))
    + Len(SelectSeq(ToolsWithSchema(result), LAMBDA t : TruthyStr(t, "description")))
    + Len(SelectSeq(result.resources,
                    LAMBDA r : HasName(r) /\ TruthyStr(r, "description")))
    + Len(SelectSeq(result.prompts, LAMBDA q : TruthyStr(q, "description")))
    + Len(Flatten([k \in DOMAIN result.tools |->
            IF HasObjectProperties(result.tools[k])
            THEN SelectSeq(result.tools[k].inputSchema.properties,
                           LAMBDA e : TruthyStr(e.schema, "description"))
            ELSE <<>>]))

RECURSIVE Sum(_)
Sum(ns) == IF Len(ns) = 0 THEN 0 ELSE Head(ns) + Sum(Tail(ns))

\* C5 (as claimed): with options.includeComments false the run emits no
\* documentation derived from tool, schema-property, resource or prompt
\* descriptions; with it true each description becomes documentation.
C5_IncludeCommentsToggles ==
    (Generated /\ "includeComments" \in DOMAIN options) =>
        IF options.includeComments
        THEN Len(DescriptionDocsOf(out))
                = Sum([i \in DOMAIN servers |->
                          IF HasError(servers[i].result) THEN 0
                          ELSE DescribedIn(servers[i].result)])
        ELSE Len(DescriptionDocsOf(out)) = 0

\* the elements of a sequence are pairwise distinct
Distinct(ss) == \A i, j \in DOMAIN ss : i # j => ss[i] # ss[j]

\* the names of the methods of one kind of a class, in order
MethodNames(class, kind) ==
    LET ms == SelectSeq(class.methods, LAMBDA m : m.kind = kind)
    IN  [i \in DOMAIN ms |-> ms[i].name]

\* the precondition of C6 on one server: tool names distinct after
\* camel-casing, resource display names distinct after Pascal-casing, prompt
\* names distinct after camel-casing
DistinctWithinKinds(result) ==
    LET named == SelectSeq(result.resources, HasName)
    IN  /\ Distinct([i \in DOMAIN result.tools |-> camelCase(result.tools[i].name)])
        /\ Distinct([i \in DOMAIN named |-> pascalCase(named[i].name)])
        /\ Distinct([i \in DOMAIN result.prompts |-> camelCase(result.prompts[i].name)])

\* C6 (as claimed): within one generated class, for a server whose names are
\* distinct within each kind, a tool method never has the name of the generic
\* accessor getResource, of a resource convenience method or of a prompt
\* method, and a resource convenience method never has the name getResource.
C6_NoMethodNameCollision ==
    Generated =>
        \A k \in DOMAIN out :
            (out[k].kind = "class"
                /\ DistinctWithinKinds(servers[out[k].server].result)) =>
                LET class == out[k].node
                    tools == Range(MethodNames(class, "tool"))
                    generic == Range(MethodNames(class, "getResource"))
                    resources == Range(MethodNames(class, "resource"))
                    prompts == Range(MethodNames(class, "prompt"))
                IN  /\ tools \cap (generic \cup resources \cup prompts) = {}
                    /\ resources \cap generic = {}

\* the place of a kind of statement among the statements of one server
Rank(kind) ==
    CASE kind = "interface" -> 1
      [] kind = "class" -> 2
      [] kind = "slot" -> 3
      [] kind = "accessor" -> 4
      [] OTHER -> 0

\* C7: the statements of the file come in a fixed order: the header, the two
\* imports, the two unwrap helpers (each once, whatever the number of servers),
\* then the statements of each server in map order, and for each server its
\* interfaces, then its class, then its slot, then its accessor; no statement
\* of a later server precedes one of an earlier server.
C7_FixedOrder ==
    Generated =>
        /\ Len(out) >= 5
        /\ [i \in 1..5 |-> out[i].kind]
              = <<"header", "import", "import", "helper", "helper">>
        /\ out[2].node.namedImports = <<"Client">>
        /\ out[3].node.namedImports = <<"McpConnection">>
        /\ out[4].node.name = "handleToolResult"
        /\ out[5].node.name = "handleResourceResult"
        /\ \A k \in 6..Len(out) :
              /\ out[k].kind \in {"comment", "interface", "class", "slot", "accessor"}
              /\ out[k].server \in DOMAIN servers
        /\ \A k, l \in 6..Len(out) :
              k < l =>
                 /\ out[k].server <= out[l].server
                 /\ out[k].server = out[l].server =>
                       /\ out[k].kind # "comment" /\ out[l].kind # "comment"
                       /\ Rank(out[k].kind) <= Rank(out[l].kind)
                       /\ Rank(out[k].kind) = Rank(out[l].kind)
                             => out[k].kind = "interface"

\* two servers, each with interfaces, a class, a slot and an accessor
C7_Witness ==
    /\ Generated
    /\ Len(servers) = 2
    /\ \A i \in {1, 2} :
          /\ Len(KindOf(out, i, "interface")) >= 2
          /\ Len(KindOf(out, i, "accessor")) = 1

\* C9: a slot and an accessor are emitted for a server if and only if the
\* server produced a class and options.treeShakable is not false (absent
\* counts as enabled); with treeShakable false the file holds the classes and
\* no slot and no accessor.
C9_SingletonIffTreeShakable ==
    Generated =>
        LET enabled == ~("treeShakable" \in DOMAIN options /\ ~options.treeShakable)
        IN  /\ \A i \in DOMAIN servers :
                  LET hasClass == Len(KindOf(out, i, "class")) = 1
                  IN  /\ Len(KindOf(out, i, "slot")) = (IF hasClass /\ enabled THEN 1 ELSE 0)
                      /\ Len(KindOf(out, i, "accessor"))
                            = (IF hasClass /\ enabled THEN 1 ELSE 0)
                      /\ hasClass <=> ~HasError(servers[i].result)
                      /\ \A k \in DOMAIN out :
                            (out[k].server = i /\ out[k].kind = "accessor") =>
                               /\ out[k].node.returnType = KindOf(out, i, "class")[1].node.name
                               /\ out[k].node.slot = KindOf(out, i, "slot")[1].node.name
            /\ ~enabled => \A k \in DOMAIN out : out[k].kind \notin {"slot", "accessor"}

\* no treeShakable option is given and a server with a class got its slot and
\* accessor while a failed server of the same map got none
C9_Witness ==
    /\ Generated
    /\ "treeShakable" \notin DOMAIN options
    /\ \E i, j \in DOMAIN servers :
          /\ Len(KindOf(out, i, "accessor")) = 1
          /\ Len(KindOf(out, i, "slot")) = 1
          /\ HasError(servers[j].result)
          /\ Len(KindOf(out, j, "accessor")) = 0

\* C10: a tool method takes exactly one parameter, typed by the tool's input
\* declaration, if and only if a declaration was emitted for the tool; a tool
\* without input schema gets no declaration and a method without parameter that
\* passes an empty argument set; the declarations of a server are, in order,
\* the parameter types of its tool methods.
C10_ParameterIffDeclaration ==
    Generated =>
        \A k \in DOMAIN out :
            out[k].kind = "class" =>
                LET i == out[k].server
                    tools == servers[i].result.tools
                    methods == SelectSeq(out[k].node.methods, LAMBDA m : m.kind = "tool")
                    typed == SelectSeq(methods, LAMBDA m : Len(m.parameters) > 0)
                    declared == KindOf(out, i, "interface")
                IN  /\ Len(methods) = Len(tools)
                    /\ \A n \in DOMAIN methods :
                          /\ Len(methods[n].parameters) <= 1
                          /\ Len(methods[n].parameters) = 1
                                <=> "inputSchema" \in DOMAIN tools[n]
                          /\ Len(methods[n].parameters) = 1 =>
                                /\ methods[n].parameters[1].name = "input"
                                /\ methods[n].statements[3] = "  arguments: input,"
                          /\ Len(methods[n].parameters) = 0 =>
                                methods[n].statements[3] = "  arguments: {},"
                    /\ [n \in DOMAIN typed |-> typed[n].parameters[1].type]
                          = [n \in DOMAIN declared |-> declared[n].node.name]

\* a class with a tool method that takes its declared input and a tool method
\* without parameter
C10_Witness ==
    /\ Generated
    /\ \E k \in DOMAIN out :
          /\ out[k].kind = "class"
          /\ \E m1, m2 \in Range(out[k].node.methods) :
                /\ m1.kind = "tool" /\ m2.kind = "tool"
                /\ Len(m1.parameters) = 1 /\ Len(m2.parameters) = 0
                /\ \E d \in Range(KindOf(out, out[k].server, "interface")) :
                      d.node.name = m1.parameters[1].type

-----------------------------------------------------------------------------
(* The tool unwrap helper at run time (the function whose text is         *)
(* HandleToolResultText).  A raw result comes from the server, so its      *)
(* values are arbitrary JavaScript values; here a value is a record        *)
(* tagged with its kind: undefined, null, boolean, string, number, object  *)
(* (with the record of its properties) or array (with its items).          *)

JsUndefined == [t |-> "undefined"]
JsNull == [t |-> "null"]
JsBoolean(b) == [t |-> "boolean", v |-> b]
JsString(s) == [t |-> "string", v |-> s]
JsNumber(n) == [t |-> "number", v |-> n]
JsObject(fields) == [t |-> "object", fields |-> fields]
JsArray(items) == [t |-> "array", items |-> items]

\* ToBoolean, as applied by if (x), !x and x && y
Truthy(v) ==
    CASE v.t \in {"undefined", "null"} -> FALSE
      [] v.t = "boolean" -> v.v
      [] v.t = "string" -> v.v # ""
      [] v.t = "number" -> v.v # 0
      [] OTHER -> TRUE

\* typeof x
TypeOf(v) == IF v.t \in {"null", "array"} THEN "object" ELSE v.t

\* Array.isArray(x)
IsArray(v) == v.t = "array"

\* x.f of a value that is not null or undefined
Prop(v, f) ==
    IF v.t = "object" /\ f \in DOMAIN v.fields THEN v.fields[f] ELSE JsUndefined

\* x[0] of a value that is not null or undefined
First(v) ==
    CASE v.t = "array" -> IF Len(v.items) > 0 THEN v.items[1] ELSE JsUndefined
      [] v.t = "string" -> IF v.v # "" THEN JsString(SubSeq(v.v, 1, 1)) ELSE JsUndefined
      [] OTHER -> Prop(v, "0")

\* x?.[0]
OptionalFirst(v) == IF v.t \in {"undefined", "null"} THEN JsUndefined ELSE First(v)

\* "f" in x, for x of type object
HasProperty(v, f) == v.t = "object" /\ f \in DOMAIN v.fields

\* String(x)
RECURSIVE JsToString(_)
JsToString(v) ==
    CASE v.t = "undefined" -> "undefined"
      [] v.t = "null" -> "null"
      [] v.t = "boolean" -> IF v.v THEN "true" ELSE "false"
      [] v.t = "string" -> v.v
      [] v.t = "number" -> ToString(v.v)
      [] v.t = "array" ->
            Join([i \in DOMAIN v.items |->
                     IF v.items[i].t \in {"undefined", "null"} THEN ""
                     ELSE JsToString(v.items[i])], ",")
      [] OTHER -> "[object Object]"

\* throw new Error(message) and return value
Throw(message) == [threw |-> TRUE, message |-> message]
Return(value) == [threw |-> FALSE, value |-> value]

\* the helper with its first two checks exchanged
handleToolResult_ContentFirst(result, name) ==
    LET content == Prop(result, "content")
    IN  IF ~Truthy(content) \/ ~IsArray(content) \/ Len(content.items) = 0
        THEN Throw("Tool '" \o name \o "' returned empty content")
        ELSE IF Truthy(Prop(result, "isError"))
        THEN LET errorContent == OptionalFirst(content)
                 errorMessage ==
                     IF Truthy(errorContent) /\ TypeOf(errorContent) = "object"
                           /\ HasProperty(errorContent, "text")
                     THEN JsToString(Prop(errorContent, "text"))
                     ELSE "Tool execution failed"
             IN  Throw("Tool '" \o name \o "' error: " \o errorMessage)
        ELSE IF ~Truthy(content.items[1]) \/ TypeOf(content.items[1]) # "object"
        THEN Throw("Tool '" \o name \o "' returned invalid content structure")
        ELSE Return(content.items[1])

\* file-builder.ts:147-174 (examples/notion-generated.ts:12-39)
handleToolResult(result, name) ==
    IF Truthy(Prop(result, "isError"))
    THEN LET errorContent == OptionalFirst(Prop(result, "content"))
             errorMessage ==
                 IF Truthy(errorContent) /\ TypeOf(errorContent) = "object"
                       /\ HasProperty(errorContent, "text")
                 THEN JsToString(Prop(errorContent, "text"))
                 ELSE "Tool execution failed"
         IN  Throw("Tool '" \o name \o "' error: " \o errorMessage)
    ELSE LET content == Prop(result, "content")
         IN  IF ~Truthy(content) \/ ~IsArray(content) \/ Len(content.items) = 0
             THEN Throw("Tool '" \o name \o "' returned empty content")
             ELSE IF ~Truthy(content.items[1]) \/ TypeOf(content.items[1]) # "object"
             THEN Throw("Tool '" \o name \o "' returned invalid content structure")
             ELSE Return(content.items[1])

(* Inputs of the unwrap helper *)

\* the text property of a content item
TextValues == {JsString("boom"), JsString(""), JsNumber(42), JsNull}

\* content items: text items, an item of another type, and values that are
\* not objects
ContentItems ==
    {JsObject([type |-> JsString("text"), text |-> x]) : x \in TextValues}
        \cup {JsObject([type |-> JsString("image")]), JsNull, JsUndefined,
              JsString("plain"), JsNumber(0), JsArray(<<>>)}

\* result.content: absent, null, not an array, or an array of up to two items
ContentValues ==
    {JsNull, JsString("plain"), JsObject([text |-> JsString("boom")]), JsArray(<<>>)}
        \cup {JsArray(<<x>>) : x \in ContentItems}
        \cup {JsArray(<<x, JsObject([type |-> JsString("image")])>>) :
                 x \in {JsNull, JsObject([type |-> JsString("text"),
                                          text |-> JsString("boom")])}}

\* result.isError: absent, a boolean or another truthy value
IsErrorValues == {JsBoolean(TRUE), JsBoolean(FALSE), JsNumber(1)}

RawResults ==
    {JsObject(<<>>)}
        \cup {JsObject([isError |-> e]) : e \in IsErrorValues}
        \cup {JsObject([content |-> c]) : c \in ContentValues}
        \cup {JsObject([isError |-> e, content |-> c]) :
                 e \in IsErrorValues, c \in ContentValues}

ToolNameInputs == {"create-page", "ping"}

(* SpecToolResult: handleToolResult applied to every raw result *)

InitToolResult ==
    /\ raw \in RawResults
    /\ toolName \in ToolNameInputs
    /\ outcome = Undefined
    /\ resourceUri = ""
    /\ ToolInterfaceIdle /\ CodegenIdle /\ ModuleIdle /\ PureIdle /\ LibIdle

HandleToolResult ==
    /\ outcome = Undefined
    /\ outcome' = handleToolResult(raw, toolName)
    /\ UNCHANGED <<libVars, raw, toolName, resourceUri, toolInterfaceVars, codegenVars,
                   moduleVars, pureVars>>

NextToolResult == HandleToolResult

SpecToolResult == InitToolResult /\ [][NextToolResult]_vars

\* the result signals an error state
SignalsError(result) == Truthy(Prop(result, "isError"))

\* the content items the result carries
ItemsOf(result) ==
    IF IsArray(Prop(result, "content")) THEN Prop(result, "content").items ELSE <<>>

\* the texts an error message may carry after the tool name
ErrorTexts == {"Tool execution failed"} \cup {JsToString(x) : x \in TextValues}

\* the conditions the call fails with
OperationFailed(o, name) ==
    o.threw /\ \E text \in ErrorTexts : o.message = "Tool '" \o name \o "' error: " \o text
EmptyResult(o, name) ==
    o.threw /\ o.message = "Tool '" \o name \o "' returned empty content"
InvalidContent(o, name) ==
    o.threw /\ o.message = "Tool '" \o name \o "' returned invalid content structure"

\* C3 (as claimed): handleToolResult fails with OperationFailed naming the
\* tool if the result signals an error, whatever the content; otherwise fails
\* with EmptyResult if the result carries no content items; and otherwise
\* returns the first content item.
C3_ErrorEmptyOrFirstItem ==
    outcome # Undefined =>
        IF SignalsError(raw) THEN OperationFailed(outcome, toolName)
        ELSE IF Len(ItemsOf(raw)) = 0 THEN EmptyResult(outcome, toolName)
        ELSE outcome = Return(ItemsOf(raw)[1])

\* C3 (amended): as claimed, except that a first content item that is falsy
\* or not an object (null, undefined, a string, a number) is not returned:
\* the call fails with an invalid-content error naming the tool; a first item
\* that is an object is returned as it is.
C3_ErrorEmptyInvalidOrFirstItem ==
    outcome # Undefined =>
        IF SignalsError(raw) THEN OperationFailed(outcome, toolName)
        ELSE IF Len(ItemsOf(raw)) = 0 THEN EmptyResult(outcome, toolName)
        ELSE IF ~Truthy(ItemsOf(raw)[1]) \/ TypeOf(ItemsOf(raw)[1]) # "object"
        THEN InvalidContent(outcome, toolName)
        ELSE outcome = Return(ItemsOf(raw)[1])

\* a result that signals no error and whose first content item is not an
\* object has been refused
C3_Witness ==
    /\ outcome # Undefined
    /\ ~SignalsError(raw)
    /\ Len(ItemsOf(raw)) > 0
    /\ TypeOf(ItemsOf(raw)[1]) # "object"
    /\ InvalidContent(outcome, toolName)

-----------------------------------------------------------------------------
(* SpecModule: a generated module is loaded and its accessors are called  *)

\* the names a module declares with a kind of statement, in order
DeclaredNames(file, kind) ==
    LET sts == SelectSeq(file, LAMBDA st : st.kind = kind)
    IN  [k \in DOMAIN sts |-> sts[k].node.name]

\* a module loads only if no name is declared twice at its top level
Loadable(file) ==
    /\ Distinct(DeclaredNames(file, "class"))
    /\ Distinct(DeclaredNames(file, "slot"))
    /\ Distinct(DeclaredNames(file, "accessor"))

\* the modules generateClientFile builds from the input maps and options
GeneratedModules ==
    {file \in {generateClientFile(m, o, [i \in 1..(Len(m) + 1) |-> 0]) :
                  m \in ServerMaps, o \in OptionsInputs} : Loadable(file)}

\* the connection handles a caller may pass
Connections == {"c1", "c2"}

\* new XClient(connection): constructor(private connection: McpConnection);
\* id tells apart the objects constructed in one module
Construct(className, connection, id) ==
    [class |-> className, connection |-> connection, id |-> id]

\* an accessor without the test of its slot
AccessorCall_AlwaysConstructs(node, mem, connection, id) ==
    LET instance == Construct(node.className, connection, id)
    IN  [slots |-> [mem EXCEPT ![node.slot] = instance],
         constructed |-> <<instance>>,
         returned |-> instance]

\* the body of an accessor (file-builder.ts:117-120):
\*   if (!_x) { _x = new XClient(connection); } return _x;
AccessorCall(node, mem, connection, id) ==
    IF mem[node.slot] = Undefined
    THEN LET instance == Construct(node.className, connection, id)
         IN  [slots |-> [mem EXCEPT ![node.slot] = instance],
              constructed |-> <<instance>>,
              returned |-> instance]
    ELSE [slots |-> mem, constructed |-> <<>>, returned |-> mem[node.slot]]

InitModule ==
    /\ module \in GeneratedModules
    /\ slots = [s \in Range(DeclaredNames(module, "slot")) |-> Undefined]
    /\ built = <<>>
    /\ calls = <<>>
    /\ ToolInterfaceIdle /\ CodegenIdle /\ ToolResultIdle /\ PureIdle /\ LibIdle

\* a caller calls get<Server>Client(connection)
GetClient ==
    /\ Len(calls) < MaxCalls
    /\ \E k \in DOMAIN module, connection \in Connections :
          /\ module[k].kind = "accessor"
          /\ LET r == AccessorCall(module[k].node, slots, connection, Len(built) + 1)
             IN  /\ slots' = r.slots
                 /\ built' = built \o r.constructed
                 /\ calls' = Append(calls, [accessor |-> module[k].node.name,
                                            connection |-> connection,
                                            returned |-> r.returned])
    /\ UNCHANGED <<libVars, module, toolInterfaceVars, codegenVars, toolResultVars, pureVars>>

NextModule == GetClient

SpecModule == InitModule /\ [][NextModule]_vars

\* the calls made so far to one accessor, in order
CallsOf(name) == SelectSeq(calls, LAMBDA c : c.accessor = name)

\* C8: after any sequence of accessor calls, every call of one accessor has
\* returned the same instance: the one constructed by its first call, holding
\* the connection passed to that first call; each class has been constructed
\* at most once, and the slot holds that instance from the first call on.
C8_OneInstance ==
    module # Undefined =>
        /\ \A k \in DOMAIN module :
              module[k].kind = "accessor" =>
                 LET node == module[k].node
                     mine == CallsOf(node.name)
                 IN  IF Len(mine) = 0
                     THEN slots[node.slot] = Undefined
                     ELSE /\ \A n \in DOMAIN mine : mine[n].returned = mine[1].returned
                          /\ mine[1].returned.connection = mine[1].connection
                          /\ mine[1].returned.class = node.className
                          /\ mine[1].returned \in Range(built)
                          /\ slots[node.slot] = mine[1].returned
        /\ \A i, j \in DOMAIN built : i # j => built[i].class # built[j].class
        /\ Len(built) <= Len(calls)

\* an accessor was called with one connection and then with another, and the
\* accessor of another server was called too
C8_Witness ==
    /\ module # Undefined
    /\ Len(calls) = 3
    /\ \E i, j, l \in DOMAIN calls :
          /\ i < j
          /\ calls[i].accessor = calls[j].accessor
          /\ calls[i].connection # calls[j].connection
          /\ calls[l].accessor # calls[i].accessor

-----------------------------------------------------------------------------
(* The methods of a generated class at run time.  The generators paste     *)
(* tool names, prompt names and resource URIs between double quotes        *)
(* (class-generator.ts:121-125, 183, 231-232); what a method passes on at  *)
(* run time is the value of that string literal.                           *)

\* the characters of a text
Chars(text) == [i \in 1..Len(text) |-> SubSeq(text, i, i)]

\* the character an escape sequence \c stands for; the control characters
\* without a notation here are written as a name between angle brackets
EscapeValue(c) ==
    CASE c = "n" -> "\n"
      [] c = "t" -> "\t"
      [] c = "r" -> "\r"
      [] c = "f" -> "\f"
      [] c = "b" -> "<BS>"
      [] c = "v" -> "<VT>"
      [] c = "0" -> "<NUL>"
      [] OTHER -> c

RECURSIVE StringLiteral(_)
\* reads a double-quoted string literal whose opening quote has been read:
\* its value and the text after its closing quote.  The literal is not closed
\* if the line ends first; \x and \u need hexadecimal digits after them, which
\* no input has.
StringLiteral(cs) ==
    IF cs = <<>> \/ Head(cs) \in {"\n", "\r"} THEN [closed |-> FALSE]
    ELSE IF Head(cs) = "\"" THEN [closed |-> TRUE, value |-> <<>>, rest |-> Tail(cs)]
    ELSE IF Head(cs) = "\\"
    THEN IF Len(cs) < 2 \/ cs[2] \in {"x", "u"} THEN [closed |-> FALSE]
         ELSE LET r == StringLiteral(Tail(Tail(cs)))
              IN  IF r.closed
                  THEN [r EXCEPT !.value = <<EscapeValue(cs[2])>> \o @] ELSE r
    ELSE LET r == StringLiteral(Tail(cs))
         IN  IF r.closed THEN [r EXCEPT !.value = <<Head(cs)>> \o @] ELSE r

\* the value of the string literal of a statement of the form
\* prefix "..." suffix; ok is false when the statement has not that form
LiteralIn(statement, prefix, suffix) ==
    LET n == Len(prefix)
    IN  IF Len(statement) < n + 1 \/ SubSeq(statement, 1, n + 1) # prefix \o "\""
        THEN [ok |-> FALSE]
        ELSE LET r == StringLiteral(Chars(SubSeq(statement, n + 2, Len(statement))))
             IN  IF r.closed /\ Str(r.rest) = suffix
                 THEN [ok |-> TRUE, value |-> r.value]
                 ELSE [ok |-> FALSE]

(* Inputs of the class generator *)

MaxMethods == 2     \* tools, resources and prompts of the server, each

\* a tool whose name holds a backslash
BackslashTool == [name |-> <<"d","b","\\","q">>, description |-> "Query the database"]

\* a resource whose URI holds a backslash
TempResource == [uri |-> "file:///c:\\temp", name |-> <<"t","e","m","p">>]

\* the display name is the empty string
UnnamedResource == [uri |-> "resource://unnamed", name |-> <<>>]

\* a prompt with an argument that is not a bare identifier
TrimPrompt ==
    [name |-> <<"t","r","i","m">>, arguments |-> <<[name |-> "max-len"]>>]

\* a prompt with an empty argument list
EmptyArgumentsPrompt == [name |-> <<"n","o","-","a","r","g","s">>, arguments |-> <<>>]

\* the sequences of up to MaxMethods different elements of a set
ListsOf(S) ==
    UNION {{l \in [1..n -> S] : \A i, j \in 1..n : i # j => l[i] # l[j]} :
           n \in 0..MaxMethods}

ClassResults ==
    [tools : ListsOf({CreatePageTool, GetStatusTool, BackslashTool}),
     resources : ListsOf({ItemsResource, RawResource, TempResource, UnnamedResource}),
     prompts : ListsOf({SummaryPrompt, PlainPrompt, TrimPrompt, EmptyArgumentsPrompt})]

(* SpecClientClass: generateClientClass applied to every input server *)

InitClientClass ==
    /\ introspected \in [name : {ServerNames[1]}, result : ClassResults]
    /\ clientClass = Undefined
    /\ ToolInterfaceIdle /\ CodegenIdle /\ ModuleIdle /\ ToolResultIdle
    /\ CaseIdle /\ SchemaIdle /\ LibIdle

GenerateClientClass ==
    /\ clientClass = Undefined
    /\ \E t \in 0..MaxClock :
          clientClass' = generateClientClass(introspected.name, introspected.result, t)
    /\ UNCHANGED <<libVars, introspected, toolInterfaceVars, codegenVars, moduleVars,
                   toolResultVars, caseVars, schemaVars>>

NextClientClass == GenerateClientClass

SpecClientClass == InitClientClass /\ [][NextClientClass]_vars

\* the methods of one kind of the class that was generated
MethodsOf(kind) == SelectSeq(clientClass.methods, LAMBDA m : m.kind = kind)

\* C11: every tool method calls the tool by its exact original name through
\* the connection, hands the raw result and the same original name to
\* handleToolResult and returns what the helper returns; it has no other
\* statement.
C11_CallsByOriginalName ==
    clientClass # Undefined =>
        LET tools == introspected.result.tools
            methods == MethodsOf("tool")
        IN  /\ Len(methods) = Len(tools)
            /\ \A n \in DOMAIN methods :
                  LET st == methods[n].statements
                      called == LiteralIn(st[2], "  name: ", ",")
                      unwrapped == LiteralIn(st[5], "return handleToolResult(result, ", ");")
                  IN  /\ Len(st) = 5
                      /\ st[1] = "const result = await this.connection.client.callTool({"
                      /\ called.ok /\ called.value = tools[n].name
                      /\ st[4] = "});"
                      /\ unwrapped.ok /\ unwrapped.value = tools[n].name

-----------------------------------------------------------------------------
(* SpecCase: pascalCase and camelCase applied to two names that differ     *)
(* only in their separators                                                *)

MaxNameLen == 3     \* characters of a name

\* a lower-case letter, an upper-case letter and separators of each kind
NameChars == {"p", "G", "-", "_", " "}

NamesUpTo(n) == UNION {[1..k -> NameChars] : k \in 0..n}

RECURSIVE Collapse(_)
\* the name with every maximal run of separators replaced by one hyphen
Collapse(s) ==
    IF s = <<>> THEN <<>>
    ELSE IF IsSeparator(Head(s)) THEN <<"-">> \o Collapse(DropSeparators(s))
    ELSE <<Head(s)>> \o Collapse(Tail(s))

\* the pairs of names that differ only in which separator is used and in how
\* many separators stand in a run
NamePairs ==
    {pair \in NamesUpTo(MaxNameLen) \X NamesUpTo(MaxNameLen) :
        Collapse(pair[1]) = Collapse(pair[2])}

InitCase ==
    /\ namePair \in NamePairs
    /\ cased = Undefined
    /\ ToolInterfaceIdle /\ CodegenIdle /\ ModuleIdle /\ ToolResultIdle
    /\ SchemaIdle /\ ClientClassIdle /\ LibIdle

\* the identifiers derived from the name of an operation
Identifiers(name) ==
    [pascal |-> pascalCase(name),
     camel |-> camelCase(name),
     declaration |-> generateToolInterface([name |-> name,
                                            inputSchema |-> [type |-> "string"]]).name,
     method |-> generateToolMethod([name |-> name,
                                    inputSchema |-> [type |-> "string"]]).name]

ApplyCase ==
    /\ cased = Undefined
    /\ cased' = [i \in DOMAIN namePair |-> Identifiers(namePair[i])]
    /\ UNCHANGED <<libVars, namePair, toolInterfaceVars, codegenVars, moduleVars, toolResultVars,
                   schemaVars, clientClassVars>>

NextCase == ApplyCase

SpecCase == InitCase /\ [][NextCase]_vars

\* C12: for two names that differ only in their separator characters (which
\* separator is used, how many stand in a run), pascalCase returns the same
\* identifier and camelCase returns the same identifier, so the two operations
\* get the same declaration name and the same method name.
C12_SeparatorsDoNotMatter ==
    cased # Undefined =>
        /\ cased[1].pascal = cased[2].pascal
        /\ cased[1].camel = cased[2].camel
        /\ cased[1].declaration = cased[2].declaration
        /\ cased[1].method = cased[2].method

\* two different names, one with a hyphen and one with a run of an underscore
\* and a space in its place, got the same identifiers
C12_Witness ==
    /\ cased # Undefined
    /\ namePair = <<<<"-", "p">>, <<"_", " ", "p">>>>
    /\ cased[1].pascal = <<"P">>
    /\ cased[2].camel = <<"p">>
    /\ cased[1].declaration = "PInput"

-----------------------------------------------------------------------------
(* SpecSchema: jsonSchemaToTypeScript applied to every input schema        *)

\* schema.enum, schema.anyOf, ... is truthy and no array, so that it has no map
NotArray(schema, keyword) == "notArray" \in DOMAIN schema /\ keyword \in schema.notArray

\* schema.anyOf, ... is truthy (an empty array is truthy)
TruthyKeyword(schema, keyword) == keyword \in DOMAIN schema \/ NotArray(schema, keyword)

RECURSIVE MapOfNonArray(_)
\* the call ends in a TypeError (x.map is not a function) at
\* schema-converter.ts:21, :75 or :80, here or in a nested call
MapOfNonArray(schema) ==
    IF schema = Undefined THEN FALSE
    ELSE LET type == SchemaType(schema) IN
    IF type = "string" THEN NotArray(schema, "enum")
    ELSE IF type \in {"number", "integer", "boolean", "null"} THEN FALSE
    ELSE IF type = "array" THEN MapOfNonArray(Get(schema, "items"))
    ELSE IF type = "object" THEN
        /\ "properties" \in DOMAIN schema
        /\ \/ \E i \in DOMAIN schema.properties :
                 MapOfNonArray(schema.properties[i].schema)
           \/ LET ap == Get(schema, "additionalProperties")
              IN  ap # Undefined /\ "bool" \notin DOMAIN ap /\ MapOfNonArray(ap)
    ELSE IF "types" \in DOMAIN schema THEN FALSE
    ELSE IF TruthyKeyword(schema, "anyOf") THEN
        \/ NotArray(schema, "anyOf")
        \/ \E i \in DOMAIN schema.anyOf : MapOfNonArray(schema.anyOf[i])
    ELSE IF TruthyKeyword(schema, "oneOf") THEN
        \/ NotArray(schema, "oneOf")
        \/ \E i \in DOMAIN schema.oneOf : MapOfNonArray(schema.oneOf[i])
    ELSE IF TruthyKeyword(schema, "allOf") THEN
        \/ NotArray(schema, "allOf")
        \/ \E i \in DOMAIN schema.allOf : MapOfNonArray(schema.allOf[i])
    ELSE FALSE

\* what a call of jsonSchemaToTypeScript does
Synthesis(schema) ==
    IF MapOfNonArray(schema)
    THEN Throw("TypeError: map is not a function")
    ELSE Return(jsonSchemaToTypeScript(schema))

(* Inputs of the schema converter *)

\* an object with a required and an optional property, one of them quoted
PersonSchema ==
    [type |-> "object",
     properties |-> <<[key |-> <<"i","d">>, schema |-> [type |-> "string"]],
                      [key |-> <<"x","-","y">>, schema |-> [type |-> "number"]]>>,
     required |-> {<<"i","d">>}]

\* objects nested in properties, array items, index signatures and branches
NestedSchemas ==
    {[type |-> "object",
      properties |-> <<[key |-> <<"u","s","e","r">>, schema |-> PersonSchema],
                       [key |-> <<"i","d">>, schema |-> [type |-> "boolean"]]>>,
      required |-> {<<"u","s","e","r">>}],
     [type |-> "object",
      properties |->
         <<[key |-> <<"a">>,
            schema |-> [type |-> "object",
                        properties |-> <<[key |-> <<"b">>, schema |-> PersonSchema]>>,
                        required |-> {<<"b">>}]]>>],
     [type |-> "array", items |-> PersonSchema],
     [type |-> "object", properties |-> <<>>, additionalProperties |-> PersonSchema],
     [anyOf |-> <<PersonSchema, [type |-> "null"]>>],
     [allOf |-> <<PersonSchema, [type |-> "object", properties |-> <<>>]>>]}

\* schemas on the edges of the recognised shapes
EdgeSchemas ==
    {[type |-> "unknown"],
     [type |-> "string", enum |-> <<>>],
     [type |-> "string", enum |-> <<"b", "a", "b">>],
     [type |-> "number", enum |-> <<"1">>],
     [types |-> <<>>],
     [types |-> <<"object", "array", "integer">>],
     [type |-> "object", anyOf |-> <<[type |-> "string"]>>],
     [type |-> "unknown", oneOf |-> <<[type |-> "boolean"], [type |-> "string"]>>],
     [anyOf |-> <<[type |-> "string"]>>, oneOf |-> <<[type |-> "number"]>>],
     [oneOf |-> <<[type |-> "number"]>>, allOf |-> <<[type |-> "string"]>>],
     [types |-> <<"string", "number">>, anyOf |-> <<[type |-> "boolean"]>>]}

\* schemas with a keyword of the wrong kind
MalformedSchemas ==
    {[type |-> "string", notArray |-> {"enum"}],
     [type |-> "number", notArray |-> {"enum"}],
     [notArray |-> {"anyOf"}],
     [notArray |-> {"oneOf"}],
     [notArray |-> {"allOf"}],
     [anyOf |-> <<[type |-> "string"]>>, notArray |-> {"allOf"}],
     [type |-> "array", items |-> [type |-> "string", notArray |-> {"enum"}]],
     [type |-> "object",
      properties |-> <<[key |-> <<"i","d">>, schema |-> [notArray |-> {"anyOf"}]]>>]}

SchemaInputs ==
    {Undefined} \cup InputSchemas \cup NestedSchemas \cup EdgeSchemas \cup MalformedSchemas

InitSchema ==
    /\ schemaNode \in SchemaInputs
    /\ synthesized = Undefined
    /\ ToolInterfaceIdle /\ CodegenIdle /\ ModuleIdle /\ ToolResultIdle
    /\ CaseIdle /\ ClientClassIdle /\ LibIdle

JsonSchemaToTypeScript ==
    /\ synthesized = Undefined
    /\ synthesized' = Synthesis(schemaNode)
    /\ UNCHANGED <<libVars, schemaNode, toolInterfaceVars, codegenVars, moduleVars,
                   toolResultVars, caseVars, clientClassVars>>

NextSchema == JsonSchemaToTypeScript

SpecSchema == InitSchema /\ [][NextSchema]_vars

\* the call has returned a type expression
Returned == synthesized # Undefined /\ ~synthesized.threw

\* the position of the first c in cs from position k on, 0 if there is none
IndexOf(cs, c, k) ==
    IF \E i \in k..Len(cs) : cs[i] = c
    THEN CHOOSE i \in k..Len(cs) : cs[i] = c /\ \A j \in k..(i - 1) : cs[j] # c
    ELSE 0

RECURSIVE SplitLines(_)
\* the lines of a text, given by its characters
SplitLines(cs) ==
    LET k == IndexOf(cs, "\n", 1)
    IN  IF k = 0 THEN <<cs>>
        ELSE <<SubSeq(cs, 1, k - 1)>> \o SplitLines(SubSeq(cs, k + 1, Len(cs)))

\* a line of a structural type that declares a property: two spaces, the key,
\* bare or quoted, the optional marker, a colon (an index signature starts
\* with a bracket)
IsPropertyLine(line) ==
    Len(line) >= 3 /\ line[1] = " " /\ line[2] = " " /\ line[3] # "["

\* the key and the optional marker a property line declares
PropertyHead(line) ==
    LET quoted == line[3] = "\""
        last == IF quoted THEN IndexOf(line, "\"", 4)
                ELSE LET c == IndexOf(line, ":", 3)
                         q == IndexOf(line, "?", 3)
                     IN  (IF q # 0 /\ q < c THEN q ELSE c) - 1
    IN  [key |-> IF quoted THEN SubSeq(line, 4, last - 1) ELSE SubSeq(line, 3, last),
         optional |-> line[last + 1] = "?",
         colon |-> line[last + 1] = ":" \/ line[last + 2] = ":"]

\* the properties a type expression declares, at every depth, in text order
PropertyHeads(text) ==
    LET lines == SelectSeq(SplitLines(Chars(text)), IsPropertyLine)
    IN  [i \in DOMAIN lines |-> PropertyHead(lines[i])]

RECURSIVE SchemaProperties(_)
\* the properties of the object nodes of a schema that the converter reaches,
\* at every depth, in the order of the schema: a node with properties, then the
\* nodes below each property, then the node of its additionalProperties
SchemaProperties(schema) ==
    IF schema = Undefined THEN <<>>
    ELSE LET type == SchemaType(schema) IN
    IF type = "array" THEN SchemaProperties(Get(schema, "items"))
    ELSE IF type = "object" THEN
        IF "properties" \notin DOMAIN schema THEN <<>>
        ELSE Flatten([i \in DOMAIN schema.properties |->
                        <<[key |-> schema.properties[i].key,
                           optional |-> ~("required" \in DOMAIN schema
                                           /\ schema.properties[i].key
                                                  \in schema.required),
                           colon |-> TRUE]>>
                        \o SchemaProperties(schema.properties[i].schema)])
             \o (LET ap == Get(schema, "additionalProperties")
                 IN  IF "bool" \in DOMAIN ap THEN <<>> ELSE SchemaProperties(ap))
    ELSE IF type # "" \/ "types" \in DOMAIN schema THEN <<>>
    ELSE IF "anyOf" \in DOMAIN schema THEN
        Flatten([i \in DOMAIN schema.anyOf |-> SchemaProperties(schema.anyOf[i])])
    ELSE IF "oneOf" \in DOMAIN schema THEN
        Flatten([i \in DOMAIN schema.oneOf |-> SchemaProperties(schema.oneOf[i])])
    ELSE IF "allOf" \in DOMAIN schema THEN
        Flatten([i \in DOMAIN schema.allOf |-> SchemaProperties(schema.allOf[i])])
    ELSE <<>>

\* C13: for every object node with properties P and required set R within the
\* keys of P, at every nesting depth, the type expression declares each key of
\* P exactly once, in the order of P, and the key carries the optional marker
\* if and only if it is absent from R.
C13_EachKeyOnceOptionalIffNotRequired ==
    Returned => PropertyHeads(synthesized.value) = SchemaProperties(schemaNode)

\* an object nested three deep was synthesized: four properties, of which one
\* is quoted and optional
C13_Witness ==
    /\ Returned
    /\ "properties" \in DOMAIN schemaNode
    /\ \E i \in DOMAIN schemaNode.properties :
          /\ schemaNode.properties[i].key = <<"a">>
          /\ SchemaType(schemaNode.properties[i].schema) = "object"
    /\ Len(PropertyHeads(synthesized.value)) = 4
    /\ PropertyHeads(synthesized.value)[4]
          = [key |-> <<"x", "-", "y">>, optional |-> TRUE, colon |-> TRUE]

\* the single type names the converter dispatches on (schema-converter.ts:18-63)
RecognisedTypes ==
    {"string", "number", "integer", "boolean", "null", "array", "object"}

\* a node of no recognised shape: no recognised type name, no type array and
\* no anyOf, oneOf or allOf
NoRecognisedShape(schema) ==
    /\ schema # Undefined
    /\ SchemaType(schema) \notin RecognisedTypes
    /\ DOMAIN schema \cap {"types", "anyOf", "oneOf", "allOf", "notArray"} = {}

\* C14: jsonSchemaToTypeScript is total: for every input node it returns a
\* type expression and never throws; an absent node and a node of no
\* recognised shape both yield the universal type any.
C14_Total ==
    synthesized # Undefined =>
        /\ ~synthesized.threw
        /\ (schemaNode = Undefined \/ NoRecognisedShape(schemaNode))
              => synthesized.value = "any"

\* an Object node was synthesized
ObjectSynthesized ==
    Returned /\ schemaNode # Undefined /\ SchemaType(schemaNode) = "object"

\* schema.additionalProperties is absent or false
NoAdditionalProperties(schema) ==
    \/ "additionalProperties" \notin DOMAIN schema
    \/ /\ "bool" \in DOMAIN schema.additionalProperties
       /\ ~schema.additionalProperties.bool

\* C15 as stated: jsonSchemaToTypeScript never returns an empty structural
\* type for an Object node, and an Object node without properties yields
\* Record<string, any>.
C15_NeverEmptyStructuralType ==
    ObjectSynthesized =>
        /\ synthesized.value # "{}"
        /\ "properties" \notin DOMAIN schemaNode
              => synthesized.value = "Record<string, any>"

\* C15, amended: an Object node without properties yields Record<string, any>;
\* an Object node yields the empty structural type exactly when it has a
\* properties map with no key and no additionalProperties.
C15_OpenRecordWithoutProperties ==
    ObjectSynthesized =>
        /\ "properties" \notin DOMAIN schemaNode
              => synthesized.value = "Record<string, any>"
        /\ synthesized.value = "{}"
              <=> /\ "properties" \in DOMAIN schemaNode
                  /\ schemaNode.properties = <<>>
                  /\ NoAdditionalProperties(schemaNode)

\* an Object node without properties was synthesized as the open record
C15_Witness ==
    /\ ObjectSynthesized
    /\ "properties" \notin DOMAIN schemaNode
    /\ synthesized.value = "Record<string, any>"

RECURSIVE Separated(_, _)
\* the strings of ss in their order, sep between neighbours
Separated(ss, sep) ==
    IF Len(ss) = 0 THEN ""
    ELSE IF Len(ss) = 1 THEN ss[1]
    ELSE Separated(SubSeq(ss, 1, Len(ss) - 1), sep) \o sep \o ss[Len(ss)]

\* the type expression of a node that has only a single type name
TypeToken(t) ==
    CASE t = "string" -> "string"
      [] t \in {"number", "integer"} -> "number"
      [] t = "boolean" -> "boolean"
      [] t = "null" -> "null"
      [] t = "array" -> "any[]"
      [] t = "object" -> "Record<string, any>"
      [] OTHER -> "any"

\* the synthesized branches of a list of nodes, in the order of the list
Branches(schemas) == [i \in DOMAIN schemas |-> jsonSchemaToTypeScript(schemas[i])]

\* C16: for a node whose type is not a single recognised kind, a type array
\* yields the mapping of each listed type joined by | in source order;
\* otherwise an anyOf or oneOf node yields its synthesized branches joined by
\* |; otherwise an allOf node yields its synthesized branches joined by &;
\* number and order of the branches are those of the source.
C16_UnionsAndIntersections ==
    (Returned /\ schemaNode # Undefined
        /\ SchemaType(schemaNode) \notin RecognisedTypes) =>
        IF "types" \in DOMAIN schemaNode THEN
            synthesized.value
               = Separated([i \in DOMAIN schemaNode.types |->
                               TypeToken(schemaNode.types[i])], " | ")
        ELSE IF "anyOf" \in DOMAIN schemaNode THEN
            synthesized.value = Separated(Branches(schemaNode.anyOf), " | ")
        ELSE IF "oneOf" \in DOMAIN schemaNode THEN
            synthesized.value = Separated(Branches(schemaNode.oneOf), " | ")
        ELSE IF "allOf" \in DOMAIN schemaNode THEN
            synthesized.value = Separated(Branches(schemaNode.allOf), " & ")
        ELSE TRUE

\* a type array of three types was synthesized, in its order
C16_Witness ==
    /\ Returned
    /\ schemaNode = [types |-> <<"object", "array", "integer">>]
    /\ synthesized.value = "Record<string, any> | any[] | number"

\* the single primitive kinds
PrimitiveTypes == {"string", "number", "integer", "boolean", "null"}

\* C17: for a node whose type is a single primitive kind the result is exactly
\* the fixed token of that kind, integer and number both giving number; the
\* only exception is a string node with an enum of N values, which gives those
\* N values, each quoted, joined by |, in source order without sorting.
C17_PrimitiveTokens ==
    (Returned /\ schemaNode # Undefined
        /\ SchemaType(schemaNode) \in PrimitiveTypes) =>
        IF schemaNode.type = "string" /\ "enum" \in DOMAIN schemaNode
        THEN synthesized.value
                = Separated([i \in DOMAIN schemaNode.enum |->
                                "\"" \o schemaNode.enum[i] \o "\""], " | ")
        ELSE /\ synthesized.value = TypeToken(schemaNode.type)
             /\ synthesized.value \in {"string", "number", "boolean", "null"}

\* a string enum of three values, unsorted and with a repeated value, was
\* synthesized
C17_Witness ==
    /\ Returned
    /\ schemaNode = [type |-> "string", enum |-> <<"b", "a", "b">>]
    /\ synthesized.value = "\"b\" | \"a\" | \"b\""

-----------------------------------------------------------------------------
(* The prompt and resource methods of a generated class                    *)

\* the characters cs begin with the text
StartsWith(cs, text) ==
    Len(cs) >= Len(text) /\ Str(SubSeq(cs, 1, Len(text))) = text

\* the length of the identifier cs begins with, 0 if it begins with none
IdentifierLength(cs) ==
    LET stops == {i \in DOMAIN cs : ~(IsLetter(cs[i]) \/ IsDigit(cs[i]) \/ cs[i] = "_")}
        n == IF stops = {} THEN Len(cs)
             ELSE (CHOOSE i \in stops : \A j \in stops : i <= j) - 1
    IN  IF n > 0 /\ IsDigit(cs[1]) THEN 0 ELSE n

RECURSIVE TypeMembers(_)
\* the members of the body of an object type whose members are all of type
\* string: an identifier, the optional marker, ": string", members separated
\* by "; "; ok is false when the text has not that form
TypeMembers(cs) ==
    LET n == IdentifierLength(cs)
        afterName == SubSeq(cs, n + 1, Len(cs))
        optional == StartsWith(afterName, "?")
        afterMark == IF optional THEN Tail(afterName) ELSE afterName
    IN  IF n = 0 \/ ~StartsWith(afterMark, ": string") THEN [ok |-> FALSE]
        ELSE LET rest == SubSeq(afterMark, 9, Len(afterMark))
                 member == [name |-> SubSeq(cs, 1, n), optional |-> optional]
             IN  IF rest = <<>> THEN [ok |-> TRUE, members |-> <<member>>]
                 ELSE IF ~StartsWith(rest, "; ") THEN [ok |-> FALSE]
                 ELSE LET r == TypeMembers(SubSeq(rest, 3, Len(rest)))
                      IN  IF r.ok THEN [r EXCEPT !.members = <<member>> \o @] ELSE r

\* the members of the object type { ... } of a parameter
ObjectTypeMembers(type) ==
    LET cs == Chars(type)
    IN  IF StartsWith(cs, "{ ") /\ Len(cs) >= 4
           /\ Str(SubSeq(cs, Len(cs) - 1, Len(cs))) = " }"
        THEN TypeMembers(SubSeq(cs, 3, Len(cs) - 2))
        ELSE [ok |-> FALSE]

\* prompt.arguments, none when absent
ArgumentsOf(p) == IF "arguments" \in DOMAIN p THEN p.arguments ELSE <<>>

\* C18: for every prompt there is one method named camelCase(name) + Prompt;
\* it takes one object parameter with one string property per declared
\* argument, optional if and only if the argument is not marked required, and
\* no parameter when no argument is declared; its body retrieves the prompt by
\* its exact original name and returns the messages as they are.
C18_PromptMethods ==
    clientClass # Undefined =>
        LET prompts == introspected.result.prompts
            methods == MethodsOf("prompt")
        IN  /\ Len(methods) = Len(prompts)
            /\ \A n \in DOMAIN methods :
                  LET arguments == ArgumentsOf(prompts[n])
                      parameters == methods[n].parameters
                      st == methods[n].statements
                      retrieved == LiteralIn(st[2], "  name: ", ",")
                  IN  /\ methods[n].name = Str(camelCase(prompts[n].name)) \o "Prompt"
                      /\ IF arguments = <<>> THEN parameters = <<>>
                         ELSE /\ Len(parameters) = 1
                              /\ LET shape == ObjectTypeMembers(parameters[1].type)
                                 IN  /\ shape.ok
                                     /\ shape.members
                                          = [i \in DOMAIN arguments |->
                                               [name |-> Chars(arguments[i].name),
                                                optional |->
                                                   ~("required" \in DOMAIN arguments[i]
                                                     /\ arguments[i].required)]]
                      /\ Len(st) = 5
                      /\ st[1] = "const result = await this.connection.client.getPrompt({"
                      /\ retrieved.ok /\ retrieved.value = prompts[n].name
                      /\ st[3] = "  arguments: "
                                    \o (IF arguments = <<>> THEN "{}" ELSE "args") \o ","
                      /\ st[4] = "});"
                      /\ st[5] = "return result.messages;"

\* the resources that have a display name, in their order
NamedResources(resources) ==
    SelectSeq(resources, LAMBDA r : "name" \in DOMAIN r /\ r.name # <<>>)

\* C19: the generic accessor getResource is emitted exactly once when the
\* server has a resource and not at all when it has none; every resource with
\* a display name gets one method without parameters that only delegates to
\* the generic accessor with the locator of that resource; a resource without
\* a display name gets no method.
C19_ResourceMethods ==
    clientClass # Undefined =>
        LET resources == introspected.result.resources
            named == NamedResources(resources)
            generic == MethodsOf("getResource")
            methods == MethodsOf("resource")
        IN  /\ Len(generic) = (IF resources = <<>> THEN 0 ELSE 1)
            /\ \A n \in DOMAIN generic :
                  /\ generic[n].name = "getResource"
                  /\ generic[n].parameters = <<[name |-> "uri", type |-> "string"]>>
            /\ Len(methods) = Len(named)
            /\ \A n \in DOMAIN methods :
                  LET st == methods[n].statements
                      delegated == LiteralIn(st[1], "return this.getResource(", ");")
                  IN  /\ methods[n].parameters = <<>>
                      /\ Len(st) = 1
                      /\ delegated.ok /\ delegated.value = Chars(named[n].uri)

-----------------------------------------------------------------------------
(* The resource unwrap helper at run time: handleResourceResult(result,    *)
(* resourceUri) of the generated file (file-builder.ts:183-197), applied   *)
(* by getResource to what client.readResource returned                     *)

\* a slip: the first entry is validated as the tool helper validates it
handleResourceResult_Validated(result, uri) ==
    LET contents == Prop(result, "contents")
    IN  IF ~Truthy(contents) \/ ~IsArray(contents) \/ Len(contents.items) = 0
        THEN Throw("Resource '" \o uri \o "' returned empty contents")
        ELSE IF ~Truthy(contents.items[1]) \/ TypeOf(contents.items[1]) # "object"
        THEN Throw("Resource '" \o uri \o "' returned invalid content structure")
        ELSE Return(contents.items[1])

\* file-builder.ts:183-197
handleResourceResult(result, uri) ==
    LET contents == Prop(result, "contents")
    IN  IF ~Truthy(contents) \/ ~IsArray(contents) \/ Len(contents.items) = 0
        THEN Throw("Resource '" \o uri \o "' returned empty contents")
        ELSE Return(contents.items[1])

(* Inputs of the resource unwrap helper *)

\* entries of contents: text and blob entries, and values that are not objects
ContentsEntries ==
    {JsObject([uri |-> JsString("resource://items"), text |-> JsString("[]")]),
     JsObject([uri |-> JsString("resource://items"), blob |-> JsString("AA==")]),
     JsNull, JsUndefined, JsString("plain"), JsNumber(0)}

\* result.contents: absent, null, falsy, not an array, or an array of up to
\* two entries
ContentsValues ==
    {JsNull, JsString(""), JsString("plain"), JsNumber(0),
     JsObject([text |-> JsString("[]")]), JsArray(<<>>)}
        \cup {JsArray(<<x>>) : x \in ContentsEntries}
        \cup {JsArray(<<x, y>>) : x \in ContentsEntries, y \in ContentsEntries}

ReadResults ==
    {JsObject(<<>>)} \cup {JsObject([contents |-> c]) : c \in ContentsValues}

ResourceUriInputs == {"resource://items", "file:///c:/temp"}

(* SpecResourceResult: handleResourceResult applied to every read result *)

InitResourceResult ==
    /\ raw \in ReadResults
    /\ resourceUri \in ResourceUriInputs
    /\ toolName = ""
    /\ outcome = Undefined
    /\ ToolInterfaceIdle /\ CodegenIdle /\ ModuleIdle /\ PureIdle /\ LibIdle

HandleResourceResult ==
    /\ outcome = Undefined
    /\ outcome' = handleResourceResult(raw, resourceUri)
    /\ UNCHANGED <<libVars, raw, toolName, resourceUri, toolInterfaceVars, codegenVars,
                   moduleVars, pureVars>>

NextResourceResult == HandleResourceResult

SpecResourceResult == InitResourceResult /\ [][NextResourceResult]_vars

\* the content entries a read returned: none when contents is missing or not
\* a sequence
EntriesOf(result) ==
    IF "contents" \in DOMAIN result.fields /\ result.fields.contents.t = "array"
    THEN result.fields.contents.items ELSE <<>>

\* C20: handleResourceResult fails with the empty-result error naming the
\* locator when the read returned no content entries (contents missing, not a
\* sequence, or empty), and otherwise returns the first entry unchanged.
C20_EmptyOrFirstEntry ==
    outcome # Undefined =>
        IF EntriesOf(raw) = <<>>
        THEN outcome = [threw |-> TRUE,
                        message |-> "Resource '" \o resourceUri
                                       \o "' returned empty contents"]
        ELSE outcome = [threw |-> FALSE, value |-> EntriesOf(raw)[1]]

\* a read with two entries of which the first is null returned null
C20_Witness ==
    /\ outcome = [threw |-> FALSE, value |-> JsNull]
    /\ Len(EntriesOf(raw)) = 2
    /\ resourceUri = "resource://items"

-----------------------------------------------------------------------------
(* Introspection: introspectServer and introspectServersParallel           *)
(* (schema-converter.ts:118-165).  An McpServer is [type, url].  A call of *)
(* introspectServer is a task [server, pc, connection, thrown, closed,     *)
(* result, doneAt]: it awaits createMcpConnection (pc = "connect"), then,  *)
(* if a connection with a client came back, awaits client.close()          *)
(* (pc = "close"), then resolves (pc = "done"); doneAt is its rank among   *)
(* the tasks in order of completion.  The client of task i is client i.    *)

\* nothing but the generator's and the generated file's state is idle
GeneratorIdle ==
    ToolInterfaceIdle /\ CodegenIdle /\ ModuleIdle /\ ToolResultIdle /\ PureIdle
generatorVars ==
    <<toolInterfaceVars, codegenVars, moduleVars, toolResultVars, pureVars>>

\* new Error(message)
JsError(message) == [t |-> "error", message |-> message]

\* error instanceof Error ? error.message : String(error)
ErrorMessage(error) == IF error.t = "error" THEN error.message ELSE JsToString(error)

\* the value of the try block (schema-converter.ts:127-133)
IntrospectionSuccess(server, connection) ==
    [server |-> server,
     capabilities |-> Get(connection, "capabilities"),
     tools |-> IF "tools" \in DOMAIN connection THEN connection.tools ELSE <<>>,
     resources |-> IF "resources" \in DOMAIN connection
                   THEN connection.resources ELSE <<>>,
     prompts |-> IF "prompts" \in DOMAIN connection THEN connection.prompts ELSE <<>>]

\* the value of the catch block (schema-converter.ts:135-141)
IntrospectionFailure(server, error) ==
    [server |-> server, tools |-> <<>>, resources |-> <<>>, prompts |-> <<>>,
     error |-> ErrorMessage(error)]

\* a slip: a failure of close() is reported as a failed introspection
AfterClose_Reported(task, closeError) ==
    IF closeError = Undefined THEN task.result
    ELSE IntrospectionFailure(task.server, closeError)

\* what the call resolves to once the finally block has run: the value that
\* was returned before it, whatever close() did (schema-converter.ts:143-149)
AfterClose(task, closeError) == task.result

\* a slip: the results are gathered in the order the calls completed
GatherResults_CompletionOrder(ts) ==
    [k \in DOMAIN ts |-> ts[CHOOSE i \in DOMAIN ts : ts[i].doneAt = k].result]

\* Promise.all(promises): the results at the indexes of their promises
GatherResults(ts) == [i \in DOMAIN ts |-> ts[i].result]

(* Inputs of the introspection *)

MaxTargets == 2     \* servers handed to introspectServersParallel

McpServers ==
    {[type |-> "http", url |-> "https://a.example/mcp"],
     [type |-> "sse", url |-> "https://a.example/mcp"],
     [type |-> "http", url |-> "https://b.example/mcp"]}

TargetLists == UNION {[1..n -> McpServers] : n \in 0..MaxTargets}

\* what createMcpConnection may resolve to for client i: a connection with
\* capabilities and lists, or one whose capabilities and lists are missing
ConnectionsOf(server, i) ==
    {[client |-> i, server |-> server,
      capabilities |-> [tools |-> TRUE],
      tools |-> <<CreatePageTool>>, resources |-> <<ItemsResource>>,
      prompts |-> <<>>],
     [client |-> i, server |-> server]}

\* what createMcpConnection and client.close may reject with
ThrownValues == {JsError("Connection refused"), JsError(""), JsString("timeout")}

(* SpecIntrospect: introspectServersParallel applied to every list of      *)
(* servers, the introspections completing in every order                   *)

NewTask(server) ==
    [server |-> server, pc |-> "connect", connection |-> Undefined,
     thrown |-> Undefined, closed |-> "no", result |-> Undefined, doneAt |-> 0]

\* the rank of the next task to complete
NextRank(ts) == Cardinality({i \in DOMAIN ts : ts[i].pc = "done"}) + 1

InitIntrospect ==
    /\ targets \in TargetLists
    /\ tasks = [i \in DOMAIN targets |-> NewTask(targets[i])]
    /\ gathered = Undefined
    /\ GeneratorIdle /\ IntrospectOthersIdle

\* createMcpConnection settles: the try block returns, or the catch block
\* does and, there being no connection, the call resolves
Connect(i) ==
    /\ tasks[i].pc = "connect"
    /\ \/ \E c \in ConnectionsOf(tasks[i].server, i) :
             tasks' = [tasks EXCEPT ![i] =
                          [@ EXCEPT !.pc = "close", !.connection = c,
                                    !.result = IntrospectionSuccess(tasks[i].server, c)]]
       \/ \E e \in ThrownValues :
             tasks' = [tasks EXCEPT ![i] =
                          [@ EXCEPT !.pc = "done", !.thrown = e,
                                    !.result = IntrospectionFailure(tasks[i].server, e),
                                    !.doneAt = NextRank(tasks)]]
    /\ UNCHANGED <<targets, gathered, generatorVars, introspectOthers>>

\* client.close() settles and the call resolves
Close(i) ==
    /\ tasks[i].pc = "close"
    /\ \E closeError \in {Undefined} \cup ThrownValues :
          tasks' = [tasks EXCEPT ![i] =
                       [@ EXCEPT !.pc = "done",
                                 !.closed = IF closeError = Undefined
                                            THEN "closed" ELSE "failed",
                                 !.result = AfterClose(tasks[i], closeError),
                                 !.doneAt = NextRank(tasks)]]
    /\ UNCHANGED <<targets, gathered, generatorVars, introspectOthers>>

\* Promise.all resolves once every call has resolved
Gather ==
    /\ gathered = Undefined
    /\ \A i \in DOMAIN tasks : tasks[i].pc = "done"
    /\ gathered' = Return(GatherResults(tasks))
    /\ UNCHANGED <<targets, tasks, generatorVars, introspectOthers>>

NextIntrospect ==
    \/ \E i \in DOMAIN tasks : Connect(i)
    \/ \E i \in DOMAIN tasks : Close(i)
    \/ Gather

SpecIntrospect == InitIntrospect /\ [][NextIntrospect]_vars

\* the list f of a connection, empty when the connection has none
ListOf(connection, f) == IF f \in DOMAIN connection THEN connection[f] ELSE <<>>

\* C23: introspectServer never rejects: when connecting fails it resolves to a
\* result with the error message and empty tools, resources and prompts; when
\* connecting succeeds it resolves to the capabilities and lists of the
\* connection, missing lists becoming empty, with no error; whenever a
\* connection was established, close() has been attempted on its client
\* before the call resolves, and a failure of close() is ignored.
C23_NeverRejects ==
    \A i \in DOMAIN tasks :
        LET task == tasks[i] IN
        /\ task.pc = "done" <=> task.result # Undefined /\ task.doneAt > 0
        /\ task.pc = "done" /\ task.thrown # Undefined =>
              /\ task.connection = Undefined /\ task.closed = "no"
              /\ task.result.server = targets[i]
              /\ task.result.error = (IF task.thrown.t = "error"
                                      THEN task.thrown.message ELSE task.thrown.v)
              /\ task.result.tools = <<>> /\ task.result.resources = <<>>
              /\ task.result.prompts = <<>>
              /\ "capabilities" \notin DOMAIN task.result
        /\ task.pc = "done" /\ task.thrown = Undefined =>
              /\ task.connection # Undefined
              /\ task.closed \in {"closed", "failed"}
              /\ "error" \notin DOMAIN task.result
              /\ task.result.server = targets[i]
              /\ task.result.tools = ListOf(task.connection, "tools")
              /\ task.result.resources = ListOf(task.connection, "resources")
              /\ task.result.prompts = ListOf(task.connection, "prompts")
              /\ IF "capabilities" \in DOMAIN task.connection
                 THEN task.result.capabilities = task.connection.capabilities
                 ELSE task.result.capabilities = Undefined

\* a call whose close() failed resolved to the lists of its connection
C23_Witness ==
    \E i \in DOMAIN tasks :
        /\ tasks[i].pc = "done" /\ tasks[i].closed = "failed"
        /\ tasks[i].result.tools = <<CreatePageTool>>
        /\ "error" \notin DOMAIN tasks[i].result

\* C24: introspectServersParallel returns exactly one result per input server,
\* at the index of that server, whatever the order in which the introspections
\* complete; the failure of one server yields an error result at its index and
\* leaves the results of the others as they are; an empty input yields an
\* empty output.
C24_OneResultPerServerInOrder ==
    gathered # Undefined =>
        /\ ~gathered.threw
        /\ Len(gathered.value) = Len(targets)
        /\ \A i \in DOMAIN targets :
              /\ gathered.value[i].server = targets[i]
              /\ gathered.value[i] = tasks[i].result
              /\ "error" \in DOMAIN gathered.value[i] <=> tasks[i].thrown # Undefined
              /\ tasks[i].thrown = Undefined =>
                    gathered.value[i].tools = ListOf(tasks[i].connection, "tools")

\* two introspections completed in the reverse of the input order, the first
\* server failing and the second succeeding
C24_Witness ==
    /\ gathered # Undefined
    /\ Len(targets) = 2
    /\ tasks[1].doneAt = 2 /\ tasks[2].doneAt = 1
    /\ "error" \in DOMAIN gathered.value[1]
    /\ gathered.value[2].tools = <<CreatePageTool>>

-----------------------------------------------------------------------------
(* The capability cache: getCachedCapabilities and clearCapabilityCache    *)
(* (schema-converter.ts:167-207).  capabilityCache is the Map, a set of    *)
(* [key, result] entries with one entry per key.  A result is              *)
(* [object, value]: value is the IntrospectionResult and object tells      *)
(* result objects apart (the object made by the introspection of call k    *)
(* is object k).  A call is [server, forceRefresh, pc, introspected,       *)
(* result]; it either returns the cached object at once or awaits          *)
(* introspectServer (pc = "introspect") and returns later (pc = "done").   *)

\* const cacheKey = type:url (schema-converter.ts:185)
CacheKey(server) == server.type \o ":" \o server.url

\* capabilityCache.get(key)
CacheGet(cache, key) ==
    IF \E e \in cache : e.key = key
    THEN (CHOOSE e \in cache : e.key = key).result ELSE Undefined

\* capabilityCache.set(key, result)
CacheSet(cache, key, result) ==
    {e \in cache : e.key # key} \cup {[key |-> key, result |-> result]}

\* if (!result.error)
Cacheable(result) == ~TruthyStr(result.value, "error")

(* Inputs of the cache *)

MaxCacheCalls == 3  \* calls of getCachedCapabilities

\* the servers the calls are made for: one URL under both types
CacheServers == {server \in McpServers : server.url = "https://a.example/mcp"}

\* what introspectServer may resolve to for call k (see SpecIntrospect)
IntrospectionResults(server, k) ==
    {[object |-> k, value |-> IntrospectionSuccess(server, c)] :
        c \in {[client |-> k, server |-> server, tools |-> <<PingTool>>]}}
    \cup {[object |-> k, value |-> IntrospectionFailure(server, e)] :
             e \in {JsError("Connection refused"), JsError("")}}

(* SpecCache: calls of getCachedCapabilities and clearCapabilityCache in   *)
(* every order, the introspections of the calls completing in every order. *)
(* Three fields of a call record its history: expected holds, for a call     *)
(* without forceRefresh, the objects that calls for the same server had    *)
(* returned as successful results and that were binding when the call was  *)
(* made; binding tells that the call returned a successful result and that *)
(* since then the cache was not cleared and no forced refresh of the same  *)
(* server succeeded.  alone tells that no other call was awaiting its      *)
(* introspection when the call was made.                                   *)

\* the result is one of a successful introspection
Successful(result) == "error" \notin DOMAIN result.value

\* the objects binding for a server
BindingFor(server) ==
    {cacheCalls[a].result : a \in {b \in DOMAIN cacheCalls :
        cacheCalls[b].binding /\ cacheCalls[b].server = server}}

InitCache ==
    /\ capabilityCache = {}
    /\ cacheCalls = <<>>
    /\ cacheOp = ""
    /\ GeneratorIdle /\ CacheOthersIdle

\* getCachedCapabilities(server, config, forceRefresh) up to its return or
\* its await
GetCachedCapabilities(server, forceRefresh) ==
    /\ Len(cacheCalls) < MaxCacheCalls
    /\ LET cached == CacheGet(capabilityCache, CacheKey(server))
           hit == ~forceRefresh /\ cached # Undefined
       IN  cacheCalls' = Append(cacheCalls,
              [server |-> server, forceRefresh |-> forceRefresh,
               pc |-> IF hit THEN "done" ELSE "introspect",
               introspected |-> ~hit,
               result |-> IF hit THEN cached ELSE Undefined,
               expected |-> IF forceRefresh THEN {} ELSE BindingFor(server),
               binding |-> hit /\ Successful(cached),
               alone |-> \A a \in DOMAIN cacheCalls : cacheCalls[a].pc = "done"])
    /\ cacheOp' = "get"
    /\ UNCHANGED <<capabilityCache, generatorVars, cacheOthers>>

\* introspectServer resolves: the rest of getCachedCapabilities
IntrospectionResolves(k) ==
    /\ cacheCalls[k].pc = "introspect"
    /\ \E result \in IntrospectionResults(cacheCalls[k].server, k) :
          /\ capabilityCache' =
                IF Cacheable(result)
                THEN CacheSet(capabilityCache, CacheKey(cacheCalls[k].server), result)
                ELSE capabilityCache
          /\ cacheCalls' =
                [a \in DOMAIN cacheCalls |->
                    IF a = k
                    THEN [cacheCalls[k] EXCEPT !.pc = "done", !.result = result,
                                               !.binding = Successful(result)]
                    ELSE IF /\ cacheCalls[k].forceRefresh /\ Successful(result)
                            /\ cacheCalls[a].server = cacheCalls[k].server
                    THEN [cacheCalls[a] EXCEPT !.binding = FALSE]
                    ELSE cacheCalls[a]]
    /\ cacheOp' = "resolve"
    /\ UNCHANGED <<generatorVars, cacheOthers>>

\* clearCapabilityCache(), when there is something it changes
ClearCapabilityCache ==
    /\ capabilityCache # {} \/ \E a \in DOMAIN cacheCalls : cacheCalls[a].binding
    /\ capabilityCache' = {}
    /\ cacheCalls' = [a \in DOMAIN cacheCalls |-> [cacheCalls[a] EXCEPT !.binding = FALSE]]
    /\ cacheOp' = "clear"
    /\ UNCHANGED <<generatorVars, cacheOthers>>

NextCache ==
    \/ \E server \in CacheServers, forceRefresh \in BOOLEAN :
          GetCachedCapabilities(server, forceRefresh)
    \/ \E k \in DOMAIN cacheCalls : IntrospectionResolves(k)
    \/ ClearCapabilityCache

SpecCache == InitCache /\ [][NextCache]_vars

\* C21: after getCachedCapabilities has returned a successful result for a
\* server, every later call for the same type and URL without forceRefresh
\* returns that same object without a new introspection, until
\* clearCapabilityCache is called or a forced refresh succeeds; servers that
\* differ in type or URL never share a cache entry; clearCapabilityCache
\* removes every entry.
C21_CachedUntilClearedOrRefreshed ==
    /\ \A c \in DOMAIN cacheCalls :
          cacheCalls[c].expected # {} =>
              /\ ~cacheCalls[c].introspected
              /\ cacheCalls[c].expected = {cacheCalls[c].result}
    /\ \A server, other \in McpServers :
          server # other => CacheKey(server) # CacheKey(other)
    /\ \A e \in capabilityCache :
          /\ e.key = CacheKey(e.result.value.server)
          /\ \A f \in capabilityCache : f.key = e.key => f = e
    /\ \A a, b \in DOMAIN cacheCalls :
          (cacheCalls[a].pc = "done" /\ cacheCalls[b].pc = "done"
              /\ cacheCalls[a].server # cacheCalls[b].server)
             => cacheCalls[a].result.object # cacheCalls[b].result.object
    /\ cacheOp = "clear" => capabilityCache = {}

\* every call was made when no other call was awaiting its introspection
NoOverlap == \A c \in DOMAIN cacheCalls : cacheCalls[c].alone

\* no introspection failed with an empty error message
NoEmptyMessage ==
    \A c \in DOMAIN cacheCalls :
        cacheCalls[c].pc = "done" => ~("error" \in DOMAIN cacheCalls[c].result.value
                                       /\ cacheCalls[c].result.value.error = "")

\* C22: the cache never holds a failed introspection: every cached entry is
\* the result of an introspection that connected; a failed result is returned
\* to the caller but not stored, and a failed forced refresh leaves the entry
\* of its server as it was.
C22_NoFailedResultCached ==
    /\ \A e \in capabilityCache :
          /\ "error" \notin DOMAIN e.result.value
          /\ \E k \in DOMAIN cacheCalls :
                /\ cacheCalls[k].introspected /\ cacheCalls[k].pc = "done"
                /\ cacheCalls[k].result = e.result
    /\ \A k \in DOMAIN cacheCalls :
          (cacheCalls[k].pc = "done" /\ cacheCalls[k].introspected
              /\ "error" \in DOMAIN cacheCalls[k].result.value)
             => \A e \in capabilityCache : e.result.object # k

-----------------------------------------------------------------------------
(* Configuration discovery: getMcpServers (config.ts:49-103).  A config    *)
(* file is [unreadable |-> TRUE] when reading or parsing it throws, else   *)
(* the parsed object, a record with the properties mcpServers and servers  *)
(* that are present, each the sequence of its entries in the order of      *)
(* Object.entries.  An entry is a record with the properties url, type and *)
(* command that are present, or a JavaScript value that is not an object.  *)

IsWhiteSpace(c) == c \in {" ", "\t", "\n", "\r", "\f"}

RECURSIVE TrimStart(_)
TrimStart(cs) == IF cs # <<>> /\ IsWhiteSpace(Head(cs)) THEN TrimStart(Tail(cs)) ELSE cs

RECURSIVE TrimEnd(_)
TrimEnd(cs) ==
    IF cs # <<>> /\ IsWhiteSpace(cs[Len(cs)])
    THEN TrimEnd(SubSeq(cs, 1, Len(cs) - 1)) ELSE cs

\* a slip: only leading white space is removed
Trim_StartOnly(text) == Str(TrimStart(Chars(text)))

\* text.trim()
Trim(text) == Str(TrimEnd(TrimStart(Chars(text))))

\* typeof serverConfig === "object" && serverConfig !== null
IsObjectEntry(entry) == "t" \notin DOMAIN entry

\* the type inferred for an entry, "" when the entry is skipped
\* (config.ts:70-84); every config whose entries are scanned has mcpServers
\* or servers
InferType(server, config) ==
    LET isVSCodeFormat == "servers" \in DOMAIN config
    IN  IF "type" \in DOMAIN server /\ server.type \in {"http", "sse"}
        THEN server.type
        ELSE IF ("type" \in DOMAIN server /\ server.type = "stdio")
                   \/ TruthyStr(server, "command")
        THEN ""
        ELSE IF ~TruthyStr(server, "type")
        THEN IF isVSCodeFormat \/ "mcpServers" \in DOMAIN config THEN "http" ELSE ""
        ELSE ""

RECURSIVE ScanEntries(_, _, _)
\* the loop over Object.entries(serverConfigs) (config.ts:63-93); found is
\* [servers, seenUrls]
ScanEntries(entries, config, found) ==
    IF entries = <<>> THEN found
    ELSE LET server == Head(entries)
             trimmedUrl == IF IsObjectEntry(server) /\ "url" \in DOMAIN server
                           THEN Trim(server.url) ELSE ""
             serverType == IF IsObjectEntry(server) THEN InferType(server, config)
                           ELSE ""
             accepted == /\ IsObjectEntry(server)
                         /\ trimmedUrl # "" /\ trimmedUrl \notin found.seenUrls
                         /\ serverType # ""
         IN  ScanEntries(Tail(entries), config,
                IF accepted
                THEN [servers |-> Append(found.servers,
                                         [type |-> serverType, url |-> trimmedUrl]),
                      seenUrls |-> found.seenUrls \cup {trimmedUrl}]
                ELSE found)

\* config.mcpServers || config.servers, no entries when both are missing
ServerConfigs(config) ==
    IF "mcpServers" \in DOMAIN config THEN config.mcpServers
    ELSE IF "servers" \in DOMAIN config THEN config.servers
    ELSE <<>>

RECURSIVE ScanFiles(_, _)
\* the loop over the paths (config.ts:53-100)
ScanFiles(files, found) ==
    IF files = <<>> THEN found
    ELSE ScanFiles(Tail(files),
            IF "unreadable" \in DOMAIN Head(files) THEN found
            ELSE ScanEntries(ServerConfigs(Head(files)), Head(files), found))

getMcpServers(files) == ScanFiles(files, [servers |-> <<>>, seenUrls |-> {}]).servers

(* Inputs of getMcpServers *)

MaxEntries == 3     \* entries of the config files together

\* the paths, in priority order (config.ts:13-20)
McpConfigPaths == <<".mcp.json", ".vscode/mcp.json">>

ServerEntries ==
    {[url |-> " https://a.example/mcp\n", type |-> "http"],
     [url |-> "https://a.example/mcp", type |-> "sse"],
     [url |-> "https://b.example/mcp"],
     [url |-> "https://a.example/mcp", type |-> "stdio"],
     [url |-> "https://b.example/mcp", command |-> "npx"],
     [url |-> "https://c.example/mcp", type |-> "websocket"],
     [url |-> "https://c.example/mcp", type |-> "sse", command |-> "npx"],
     [url |-> " \t", type |-> "http"]}

EntryLists == UNION {[1..n -> ServerEntries] : n \in 0..MaxEntries}

\* the files that hold the entries l: in the format of Claude and Cursor, in
\* the format of VS Code, or not readable at all
ConfigsOf(l) ==
    {[mcpServers |-> l], [servers |-> l]}
        \cup (IF l = <<>> THEN {[unreadable |-> TRUE]} ELSE {})

\* the files at the paths: the entries of l, the first k in the first file
ConfigFileLists(l, k) ==
    {<<>>}
        \cup {<<c>> : c \in ConfigsOf(l)}
        \cup {<<c, d>> : c \in ConfigsOf([i \in 1..k |-> l[i]]),
                         d \in ConfigsOf([i \in 1..(Len(l) - k) |-> l[i + k]])}

(* SpecConfig: getMcpServers applied to every list of config files *)

InitConfig ==
    /\ \E l \in EntryLists : \E k \in 0..Len(l) :
           configFiles \in ConfigFileLists(l, k)
    /\ mcpServers = Undefined
    /\ GeneratorIdle /\ ConfigOthersIdle

GetMcpServers ==
    /\ mcpServers = Undefined
    /\ mcpServers' = Return(getMcpServers(configFiles))
    /\ UNCHANGED <<configFiles, generatorVars, configOthers>>

NextConfig == GetMcpServers

SpecConfig == InitConfig /\ [][NextConfig]_vars

(* Properties of getMcpServers *)

\* the entries of the readable files with the file of each, in file order
\* then entry order
RECURSIVE FileEntries(_)
FileEntries(files) ==
    IF files = <<>> THEN <<>>
    ELSE (IF "unreadable" \in DOMAIN Head(files) THEN <<>>
          ELSE [i \in 1..Len(ServerConfigs(Head(files))) |->
                   [entry |-> ServerConfigs(Head(files))[i], file |-> Head(files)]])
         \o FileEntries(Tail(files))

\* the text between the first and the last character that is not white space
WithoutSurroundingSpace(text) ==
    LET cs == Chars(text)
        inked == {i \in 1..Len(cs) : ~IsWhiteSpace(cs[i])}
    IN  IF inked = {} THEN ""
        ELSE SubSeq(text, CHOOSE i \in inked : \A j \in inked : i <= j,
                          CHOOSE i \in inked : \A j \in inked : j <= i)

\* the URL an entry names, "" when it names none
UrlOf(entry) ==
    IF "url" \in DOMAIN entry THEN WithoutSurroundingSpace(entry.url) ELSE ""

\* the type an entry is taken with, "" when it is skipped: http or sse as
\* written, else nothing for stdio, for a command and for any other type,
\* and http for an entry without a type
TakenAs(entry) ==
    IF "type" \in DOMAIN entry /\ entry.type \in {"http", "sse"} THEN entry.type
    ELSE IF "type" \in DOMAIN entry \/ "command" \in DOMAIN entry THEN ""
    ELSE "http"

Accepted(entry) == UrlOf(entry) # "" /\ TakenAs(entry) # ""

-----------------------------------------------------------------------------
(* OAuth credentials: McpOAuthProvider over an InMemoryOAuthStorage        *)
(* (oauth-provider.ts:36-70, 81-207).  The storage is the record of its    *)
(* three private fields; a field that may hold undefined holds Undefined   *)
(* or a JsString.  invalidateCredentials("client") reads the client        *)
(* information, is suspended at the await, and saves on resumption; the    *)
(* other scopes make their one storage call before the first suspension.   *)

\* new InMemoryOAuthStorage()
NewStorage == [clientInfo |-> Undefined, tokens |-> Undefined, codeVerifier |-> Undefined]

saveClientInfo(storage, info) == [storage EXCEPT !.clientInfo = info]

saveTokens(storage, tokens) == [storage EXCEPT !.tokens = tokens]

saveCodeVerifier(storage, verifier) == [storage EXCEPT !.codeVerifier = verifier]

\* a slip: the code verifier survives
clear_KeepingVerifier(storage) ==
    [storage EXCEPT !.clientInfo = Undefined, !.tokens = Undefined]

clear(storage) ==
    [storage EXCEPT !.clientInfo = Undefined, !.tokens = Undefined,
                    !.codeVerifier = Undefined]

\* { ...currentInfo, client_id: "", client_secret: undefined }
InvalidatedClientInfo(currentInfo) ==
    [currentInfo EXCEPT !.client_id = "", !.client_secret = Undefined]

\* { access_token: "", token_type: "Bearer" }
InvalidatedTokens == [access_token |-> "", token_type |-> "Bearer"]

(* Inputs of the provider *)

MaxInFlight == 1    \* invalidateCredentials("client") calls suspended at a time

ClientInfos ==
    {[client_id |-> "client-123", client_secret |-> JsString("secret-456"),
      client_name |-> "test"],
     [client_id |-> "client-9", client_secret |-> Undefined, client_name |-> "other"]}

TokenValues ==
    {[access_token |-> "access-123", token_type |-> "Bearer",
      refresh_token |-> "refresh-456"],
     [access_token |-> "access-9", token_type |-> "Bearer"]}

CodeVerifiers == {JsString("verifier-789"), JsString("verifier-9")}

Scopes == {"all", "client", "tokens", "verifier"}

(* SpecOAuth: saves and invalidations on one provider, interleaved at the  *)
(* awaits                                                                   *)

InitOAuth ==
    /\ oauthStorage = NewStorage
    /\ pendingInvalidations = <<>>
    /\ oauthOp = Undefined
    /\ GeneratorIdle /\ OAuthOthersIdle

Saved == [op |-> "save", scope |-> "", before |-> oauthStorage]

SaveClientInformation(clientInformation) ==
    /\ oauthStorage' = saveClientInfo(oauthStorage, clientInformation)
    /\ oauthOp' = Saved
    /\ UNCHANGED <<pendingInvalidations, generatorVars, oauthOthers>>

SaveTokens(tokens) ==
    /\ oauthStorage' = saveTokens(oauthStorage, tokens)
    /\ oauthOp' = Saved
    /\ UNCHANGED <<pendingInvalidations, generatorVars, oauthOthers>>

SaveCodeVerifier(codeVerifier) ==
    /\ oauthStorage' = saveCodeVerifier(oauthStorage, codeVerifier)
    /\ oauthOp' = Saved
    /\ UNCHANGED <<pendingInvalidations, generatorVars, oauthOthers>>

\* invalidateCredentials(scope), up to its first suspension
InvalidateCredentials(scope) ==
    /\ scope = "client" => Len(pendingInvalidations) < MaxInFlight
    /\ oauthStorage' =
          CASE scope = "all" -> clear(oauthStorage)
            [] scope = "client" -> oauthStorage
            [] scope = "tokens" -> saveTokens(oauthStorage, InvalidatedTokens)
            [] scope = "verifier" -> saveCodeVerifier(oauthStorage, JsString(""))
    /\ pendingInvalidations' =
          IF scope = "client"
          THEN Append(pendingInvalidations, [currentInfo |-> oauthStorage.clientInfo])
          ELSE pendingInvalidations
    /\ oauthOp' = [op |-> "invalidate", scope |-> scope, before |-> oauthStorage]
    /\ UNCHANGED <<generatorVars, oauthOthers>>

\* invalidateCredentials("client") after await this.storage.getClientInfo()
ResumeInvalidation(i) ==
    /\ i \in DOMAIN pendingInvalidations
    /\ oauthStorage' =
          IF pendingInvalidations[i].currentInfo # Undefined
          THEN saveClientInfo(oauthStorage,
                              InvalidatedClientInfo(pendingInvalidations[i].currentInfo))
          ELSE oauthStorage
    /\ pendingInvalidations' =
          [j \in 1..(Len(pendingInvalidations) - 1) |->
              pendingInvalidations[IF j < i THEN j ELSE j + 1]]
    /\ oauthOp' = [op |-> "invalidate", scope |-> "client", before |-> oauthStorage]
    /\ UNCHANGED <<generatorVars, oauthOthers>>

NextOAuth ==
    \/ \E clientInformation \in ClientInfos : SaveClientInformation(clientInformation)
    \/ \E tokens \in TokenValues : SaveTokens(tokens)
    \/ \E codeVerifier \in CodeVerifiers : SaveCodeVerifier(codeVerifier)
    \/ \E scope \in Scopes : InvalidateCredentials(scope)
    \/ \E i \in 1..MaxInFlight : ResumeInvalidation(i)

SpecOAuth == InitOAuth /\ [][NextOAuth]_vars

(* Properties of invalidateCredentials *)

\* C26: every step of invalidateCredentials changes only the credentials of
\* its scope: "tokens" leaves invalid tokens (an empty access token, no
\* refresh token) and the client information and code verifier as they
\* were, "client" leaves tokens and code verifier as they were, "verifier"
\* leaves client information and tokens as they were, and after "all" the
\* three are undefined
C26_OnlyTheNamedScope ==
    (oauthOp # Undefined /\ oauthOp.op = "invalidate") =>
        LET before == oauthOp.before
        IN  /\ oauthOp.scope = "tokens" =>
                /\ oauthStorage.tokens.access_token = ""
                /\ "refresh_token" \notin DOMAIN oauthStorage.tokens
                /\ oauthStorage.clientInfo = before.clientInfo
                /\ oauthStorage.codeVerifier = before.codeVerifier
            /\ oauthOp.scope = "client" =>
                /\ oauthStorage.tokens = before.tokens
                /\ oauthStorage.codeVerifier = before.codeVerifier
            /\ oauthOp.scope = "verifier" =>
                /\ oauthStorage.clientInfo = before.clientInfo
                /\ oauthStorage.tokens = before.tokens
            /\ oauthOp.scope = "all" =>
                /\ oauthStorage.clientInfo = Undefined
                /\ oauthStorage.tokens = Undefined
                /\ oauthStorage.codeVerifier = Undefined

\* with all three credentials stored, "all" has just cleared them
C26_Witness ==
    /\ oauthOp # Undefined /\ oauthOp.op = "invalidate" /\ oauthOp.scope = "all"
    /\ oauthOp.before.clientInfo \in ClientInfos
    /\ oauthOp.before.tokens \in TokenValues
    /\ oauthOp.before.codeVerifier \in CodeVerifiers
    /\ oauthStorage = NewStorage

-----------------------------------------------------------------------------
(* Concurrent first calls of an accessor.  The body of an accessor is run  *)
(* statement by statement from its emitted text (file-builder.ts:116-121); *)
(* a caller runs without interruption up to a statement that awaits, where *)
(* the other callers may run.                                              *)

\* what a statement of the body of an accessor does
StatementKind(line, node) ==
    CASE line = "if (!" \o node.slot \o ") {" -> "test"
      [] line = "  " \o node.slot \o " = new " \o node.className \o "(connection);"
            -> "construct"
      [] line = "}" -> "end"
      [] line = "return " \o node.slot \o ";" -> "return"
      [] StartsWith(TrimStart(Chars(line)), "await ") -> "await"
      [] OTHER -> "other"

\* the statement after the block opened at statement n
AfterBlock(statements, n) ==
    LET ends == {i \in (n + 1)..Len(statements) : statements[i] = "}"}
    IN  IF ends = {} THEN Len(statements) + 1
        ELSE (CHOOSE i \in ends : \A j \in ends : i <= j) + 1

RECURSIVE RunBody(_, _, _, _, _, _)
\* the body of the accessor node run from statement n up to its return or to
\* its next suspension; mem is the slots, made the instances constructed
RunBody(node, n, mem, connection, id, made) ==
    IF n > Len(node.statements)
    THEN [slots |-> mem, constructed |-> made, done |-> TRUE, line |-> n,
          returned |-> Undefined]
    ELSE LET kind == StatementKind(node.statements[n], node)
         IN  CASE kind = "test" ->
                    RunBody(node,
                            IF mem[node.slot] = Undefined THEN n + 1
                            ELSE AfterBlock(node.statements, n),
                            mem, connection, id, made)
               [] kind = "construct" ->
                    LET instance == Construct(node.className, connection, id + Len(made))
                    IN  RunBody(node, n + 1, [mem EXCEPT ![node.slot] = instance],
                                connection, id, Append(made, instance))
               [] kind = "return" ->
                    [slots |-> mem, constructed |-> made, done |-> TRUE, line |-> n,
                     returned |-> mem[node.slot]]
               [] kind = "await" ->
                    [slots |-> mem, constructed |-> made, done |-> FALSE,
                     line |-> n + 1, returned |-> Undefined]
               [] OTHER -> RunBody(node, n + 1, mem, connection, id, made)

(* Inputs *)

MaxCallers == 2     \* concurrent callers of the accessors of a module

\* the statements of a module that are accessors
AccessorsOf(file) == {k \in DOMAIN file : file[k].kind = "accessor"}

\* the callers of a module, none of them started
CallerLists(file) ==
    UNION {[1..n -> [accessor : AccessorsOf(file), connection : Connections,
                     line : {1}, done : {FALSE}, returned : {Undefined}]] :
           n \in 0..MaxCallers}

(* SpecAccessor: callers of the accessors of a loaded module, interleaved *)
(* at the suspension points of the bodies                                  *)

InitAccessor ==
    /\ module \in GeneratedModules
    /\ slots = [s \in Range(DeclaredNames(module, "slot")) |-> Undefined]
    /\ built = <<>>
    /\ calls = <<>>
    /\ callers \in CallerLists(module)
    /\ ToolInterfaceIdle /\ CodegenIdle /\ ToolResultIdle /\ PureIdle
    /\ AccessorOthersIdle

\* the caller c runs: from the call, or from the await it was suspended at
RunAccessor(c) ==
    /\ c \in DOMAIN callers
    /\ ~callers[c].done
    /\ LET r == RunBody(module[callers[c].accessor].node, callers[c].line, slots,
                        callers[c].connection, Len(built) + 1, <<>>)
       IN  /\ slots' = r.slots
           /\ built' = built \o r.constructed
           /\ callers' = [callers EXCEPT ![c].line = r.line, ![c].done = r.done,
                                         ![c].returned = r.returned]
    /\ UNCHANGED <<module, calls, toolInterfaceVars, codegenVars, toolResultVars,
                   pureVars, accessorOthers>>

NextAccessor == \E c \in 1..MaxCallers : RunAccessor(c)

SpecAccessor == InitAccessor /\ [][NextAccessor]_vars

(* Properties of concurrent first calls *)

\* C27: concurrent first calls of an accessor cannot race: no caller is ever
\* suspended inside the body, between the test of the slot and the
\* assignment; once a caller of an accessor has returned, exactly one
\* instance of its class has been constructed, the slot holds it, and every
\* caller that has returned received it
C27_ConcurrentFirstCallsShareOneInstance ==
    /\ \A c \in DOMAIN callers : callers[c].done \/ callers[c].line = 1
    /\ \A c \in DOMAIN callers :
          callers[c].done =>
             LET node == module[callers[c].accessor].node
                 instances == {i \in DOMAIN built : built[i].class = node.className}
             IN  /\ Cardinality(instances) = 1
                 /\ \A i \in instances :
                       /\ callers[c].returned = built[i]
                       /\ slots[node.slot] = built[i]

\* two callers with different connections called one accessor concurrently
\* and both have returned
C27_Witness ==
    \E c, d \in DOMAIN callers :
        /\ c # d
        /\ callers[c].accessor = callers[d].accessor
        /\ callers[c].connection # callers[d].connection
        /\ callers[c].done /\ callers[d].done
        /\ callers[c].returned = callers[d].returned
        /\ callers[c].returned # Undefined

-----------------------------------------------------------------------------
(* McpClientManager (mcp-client.ts:167-303).  The Map of connections is    *)
(* the sequence of its [key, value] entries in insertion order.  A         *)
(* connection is [id, server]; clients[id] tells whether its client has    *)
(* been closed.  addServer is suspended while createMcpConnection is       *)
(* pending, disconnect while client.close() is.                            *)

\* this.connections.get(key)
MapGet(map, key) ==
    IF \E i \in DOMAIN map : map[i].key = key
    THEN map[CHOOSE i \in DOMAIN map : map[i].key = key].value
    ELSE Undefined

\* this.connections.set(key, value): a held key keeps its place
MapSet(map, key, value) ==
    IF \E i \in DOMAIN map : map[i].key = key
    THEN [i \in DOMAIN map |-> IF map[i].key = key THEN [key |-> key, value |-> value]
                               ELSE map[i]]
    ELSE Append(map, [key |-> key, value |-> value])

\* this.connections.delete(key)
MapDelete(map, key) == SelectSeq(map, LAMBDA e : e.key # key)

\* the entries for a URL, in iteration order
EntriesFor(map, serverUrl) ==
    SelectSeq(map, LAMBDA e : e.value.server.url = serverUrl)

\* getConnection(serverUrl): the first connection for the URL
getConnection(map, serverUrl) ==
    IF EntriesFor(map, serverUrl) = <<>> THEN Undefined
    ELSE Head(EntriesFor(map, serverUrl)).value

(* Inputs of the manager *)

MaxManagerCalls == 3    \* addServer and disconnect calls on one manager

\* the servers added: one URL under both transports
ManagedServers == CacheServers

ServerUrls == {"https://a.example/mcp", "https://b.example/mcp"}

(* SpecManager: addServer and disconnect calls on one manager, interleaved *)
(* at their awaits; the calls of createMcpClientManager are addServer      *)
(* calls started together on a new manager                                 *)

InitManager ==
    /\ connections = <<>>
    /\ clients = <<>>
    /\ managerCalls = <<>>
    /\ GeneratorIdle /\ ManagerOthersIdle

\* addServer(server) up to the await, or to the return of the held connection
AddServer(server) ==
    /\ Len(managerCalls) < MaxManagerCalls
    /\ LET existing == MapGet(connections, CacheKey(server))
       IN  managerCalls' =
              Append(managerCalls,
                     [op |-> "addServer", server |-> server,
                      pc |-> IF existing # Undefined THEN "done" ELSE "connect",
                      threw |-> FALSE, returned |-> existing])
    /\ UNCHANGED <<connections, clients, generatorVars, managerOthers>>

\* createMcpConnection resolves: the connection is stored and returned
ConnectionResolves(i) ==
    /\ i \in DOMAIN managerCalls
    /\ managerCalls[i].op = "addServer" /\ managerCalls[i].pc = "connect"
    /\ LET connection == [id |-> Len(clients) + 1, server |-> managerCalls[i].server]
       IN  /\ clients' = Append(clients, [connection |-> connection, closed |-> FALSE])
           /\ connections' = MapSet(connections, CacheKey(managerCalls[i].server),
                                    connection)
           /\ managerCalls' = [managerCalls EXCEPT ![i].pc = "done",
                                                   ![i].returned = connection]
    /\ UNCHANGED <<generatorVars, managerOthers>>

\* createMcpConnection rejects: addServer rejects
ConnectionRejects(i) ==
    /\ i \in DOMAIN managerCalls
    /\ managerCalls[i].op = "addServer" /\ managerCalls[i].pc = "connect"
    /\ managerCalls' = [managerCalls EXCEPT ![i].pc = "done", ![i].threw = TRUE]
    /\ UNCHANGED <<connections, clients, generatorVars, managerOthers>>

\* disconnect(serverUrl) up to the await of client.close() of the first
\* connection for the URL, or to its return when there is none; held is the
\* connections the Map holds for the URL at the call
Disconnect(serverUrl) ==
    /\ Len(managerCalls) < MaxManagerCalls
    /\ LET found == EntriesFor(connections, serverUrl)
       IN  managerCalls' =
              Append(managerCalls,
                     [op |-> "disconnect", serverUrl |-> serverUrl,
                      pc |-> IF found = <<>> THEN "done" ELSE "close",
                      threw |-> FALSE,
                      target |-> IF found = <<>> THEN Undefined ELSE Head(found),
                      held |-> {found[k].value.id : k \in DOMAIN found},
                      mapBefore |-> connections,
                      mapAfter |-> connections,
                      after |-> getConnection(connections, serverUrl)])
    /\ UNCHANGED <<connections, clients, generatorVars, managerOthers>>

\* client.close() resolves: the key is deleted and disconnect returns
CloseResolves(i) ==
    /\ i \in DOMAIN managerCalls
    /\ managerCalls[i].op = "disconnect" /\ managerCalls[i].pc = "close"
    /\ clients' = [clients EXCEPT ![managerCalls[i].target.value.id].closed = TRUE]
    /\ connections' = MapDelete(connections, managerCalls[i].target.key)
    /\ managerCalls' =
          [managerCalls EXCEPT
              ![i].pc = "done",
              ![i].mapAfter = connections',
              ![i].after = getConnection(connections', managerCalls[i].serverUrl)]
    /\ UNCHANGED <<generatorVars, managerOthers>>

\* client.close() rejects: disconnect rejects and the key stays
CloseRejects(i) ==
    /\ i \in DOMAIN managerCalls
    /\ managerCalls[i].op = "disconnect" /\ managerCalls[i].pc = "close"
    /\ managerCalls' = [managerCalls EXCEPT ![i].pc = "done", ![i].threw = TRUE]
    /\ UNCHANGED <<connections, clients, generatorVars, managerOthers>>

NextManager ==
    \/ \E server \in ManagedServers : AddServer(server)
    \/ \E i \in 1..MaxManagerCalls : ConnectionResolves(i)
    \/ \E i \in 1..MaxManagerCalls : ConnectionRejects(i)
    \/ \E serverUrl \in ServerUrls : Disconnect(serverUrl)
    \/ \E i \in 1..MaxManagerCalls : CloseResolves(i)
    \/ \E i \in 1..MaxManagerCalls : CloseRejects(i)

SpecManager == InitManager /\ [][NextManager]_vars

(* Properties of the manager *)

\* the addServer calls that returned a connection
Added == {i \in DOMAIN managerCalls :
             /\ managerCalls[i].op = "addServer"
             /\ managerCalls[i].pc = "done" /\ ~managerCalls[i].threw}

\* no call so far is a disconnect
OnlyAddServer == \A i \in DOMAIN managerCalls : managerCalls[i].op = "addServer"

\* C28: the manager keeps at most one connection per type:url key, and under
\* every interleaving of addServer calls all calls for one server return the
\* same connection and no connection is created and then dropped unclosed:
\* every connection made is the one the Map holds for its key
C28_OneConnectionPerKey ==
    /\ \A i, j \in DOMAIN connections :
          i # j => connections[i].key # connections[j].key
    /\ OnlyAddServer =>
          /\ \A i, j \in Added :
                managerCalls[i].server = managerCalls[j].server
                    => managerCalls[i].returned = managerCalls[j].returned
          /\ \A n \in DOMAIN clients :
                MapGet(connections, CacheKey(clients[n].connection.server))
                    = clients[n].connection

\* C29: after disconnect(serverUrl) resolves, getConnection(serverUrl) is
\* undefined and the client of every connection held for the URL has been
\* closed; a disconnect of a URL without connection changes nothing and does
\* not fail
C29_DisconnectedAndClosed ==
    \A i \in DOMAIN managerCalls :
        (/\ managerCalls[i].op = "disconnect"
         /\ managerCalls[i].pc = "done") =>
            IF managerCalls[i].held = {}
            THEN /\ ~managerCalls[i].threw
                 /\ managerCalls[i].mapAfter = managerCalls[i].mapBefore
            ELSE ~managerCalls[i].threw =>
                    /\ managerCalls[i].after = Undefined
                    /\ \A n \in managerCalls[i].held : clients[n].closed

-----------------------------------------------------------------------------
(* SpecNames: generateClientFile applied to maps of two servers with       *)
(* different identifiers (file-builder.ts:75-123)                           *)

MaxIdLen == 2       \* characters of a server identifier

\* a lower-case letter, an upper-case letter and two separators
IdChars == {"p", "G", "-", "_"}

\* the keys of the server map
ServerIds == UNION {[1..k -> IdChars] : k \in 1..MaxIdLen}

\* what the introspection of a server of the map gave
NamedResults ==
    {[tools |-> <<PingTool>>, resources |-> <<>>, prompts |-> <<>>],
     [tools |-> <<>>, resources |-> <<>>, prompts |-> <<>>,
      error |-> "Connection refused"]}

\* the maps of two servers: the keys of a Map are distinct
NamedMaps ==
    {<<[name |-> a, result |-> r], [name |-> b, result |-> q]>> :
        a \in ServerIds, b \in ServerIds, r \in NamedResults, q \in NamedResults}

InitNames ==
    /\ serverMap \in {[servers |-> srvs, options |-> opts] :
                     srvs \in {x \in NamedMaps : x[1].name # x[2].name},
                     opts \in {<<>>, [treeShakable |-> FALSE]}}
    /\ topLevel = Undefined
    /\ GeneratorIdle /\ NamesOthersIdle

GenerateNamed ==
    /\ topLevel = Undefined
    /\ topLevel' = generateClientFile(serverMap.servers, serverMap.options,
                                      [i \in 1..(Len(serverMap.servers) + 1) |-> 0])
    /\ UNCHANGED <<serverMap, generatorVars, namesOthers>>

NextNames == GenerateNamed

SpecNames == InitNames /\ [][NextNames]_vars

\* the names the statements of one kind added for server i declare
NamesDeclared(file, i, kind) ==
    {file[k].node.name : k \in {j \in DOMAIN file : file[j].server = i
                                                      /\ file[j].kind = kind}}

\* C30: different server identifiers yield different top-level names: two
\* servers of the map that each produce a class share no class name, no slot
\* name and no accessor name
C30_DistinctTopLevelNames ==
    topLevel # Undefined =>
        \A i, j \in DOMAIN serverMap.servers :
            (/\ i # j
             /\ NamesDeclared(topLevel, i, "class") # {}
             /\ NamesDeclared(topLevel, j, "class") # {}) =>
                \A kind \in {"class", "slot", "accessor"} :
                    NamesDeclared(topLevel, i, kind)
                        \cap NamesDeclared(topLevel, j, kind) = {}

=============================================================================
